---- MODULE Spec2Model ----
(***************************************************************************)
(* Model of the cobol.parse_repo tool of the mcp-cobol-parser server:      *)
(* the run-scoped artifact cache, the catalog, the cursor codec and the    *)
(* page handler (tools/parse_repo.py, pagination.py, cache.py, utils/fs.py,*)
(* settings.py).                                                           *)
(*                                                                         *)
(* Python str values that are serialised, compared or sorted (kinds, run   *)
(* ids, order keys, relpaths, cursor tokens) are sequences of ASCII codes. *)
(* An Optional value is None or Some(x).                                   *)
(***************************************************************************)
EXTENDS Integers, Sequences, FiniteSets, TLC

None == <<>>
Some(x) == <<x>>
IsSome(o) == o # <<>>
Get(o) == o[1]

(***************************************************************************)
(* Literal strings of the source, as ASCII code sequences.                 *)
(***************************************************************************)
\* "source_index"
K_source_index == <<115,111,117,114,99,101,95,105,110,100,101,120>>
\* "copybook"
K_copybook == <<99,111,112,121,98,111,111,107>>
\* "program"
K_program == <<112,114,111,103,114,97,109>>
\* "legacy": a kind name outside ORDER, used as a request input
K_legacy == <<108,101,103,97,99,121>>

\* parse_repo.py: ORDER = ["source_index", "copybook", "program"]
ORDER == <<K_source_index, K_copybook, K_program>>

\* pagination.py: ORDER_KEY = "krelpath"
ORDER_KEY == <<107,114,101,108,112,97,116,104>>

\* an order key of another ordering scheme ("kname"), used for forged cursors
OtherOrderKey == <<107,110,97,109,101>>

\* field names of CursorV1, in declaration order
F_v == <<118>>
F_kinds == <<107,105,110,100,115>>
F_offset == <<111,102,102,115,101,116>>
F_ps == <<112,115>>
F_run_id == <<114,117,110,95,105,100>>
F_order_key == <<111,114,100,101,114,95,107,101,121>>

Range(s) == {s[i] : i \in DOMAIN s}

(***************************************************************************)
(* JSON values: tagged records.                                            *)
(***************************************************************************)
JInt(n) == [t |-> "int", v |-> n]
JStr(s) == [t |-> "str", v |-> s]
JList(xs) == [t |-> "list", v |-> xs]
\* an object is the sequence of its <<key, value>> members, in order
JObj(ms) == [t |-> "obj", v |-> ms]

(***************************************************************************)
(* json.dumps(data, separators=(",", ":")) restricted to integers, strings *)
(* of the Basic Multilingual Plane (a character is its code point), lists  *)
(* and objects. ensure_ascii is on: the text is ASCII.                     *)
(***************************************************************************)
RECURSIVE Digits(_)
Digits(n) == IF n < 10 THEN <<48 + n>> ELSE Digits(n \div 10) \o <<48 + (n % 10)>>

IntText(n) == IF n < 0 THEN <<45>> \o Digits(0 - n) ELSE Digits(n)

HexDigit(n) == IF n < 10 THEN 48 + n ELSE 97 + (n - 10)
Hex4(c) ==
    <<HexDigit(c \div 4096), HexDigit((c \div 256) % 16),
      HexDigit((c \div 16) % 16), HexDigit(c % 16)>>

\* the two-character escapes: " \ \b \f \n \r \t; -1: none
ShortEscape(c) ==
    CASE c = 34 -> 34 [] c = 92 -> 92 [] c = 8 -> 98 [] c = 12 -> 102
      [] c = 10 -> 110 [] c = 13 -> 114 [] c = 9 -> 116 [] OTHER -> 0 - 1

\* ESCAPE_ASCII: every character outside " ".."~" is escaped
EscapeChar(c) ==
    IF ShortEscape(c) >= 0 THEN <<92, ShortEscape(c)>>
    ELSE IF c < 32 \/ c > 126 THEN <<92, 117>> \o Hex4(c)
    ELSE <<c>>

RECURSIVE EscapeStr(_)
EscapeStr(s) ==
    IF s = <<>> THEN <<>> ELSE EscapeChar(Head(s)) \o EscapeStr(Tail(s))

StrText(s) == <<34>> \o EscapeStr(s) \o <<34>>

RECURSIVE json_dumps(_)
RECURSIVE DumpItems(_)
RECURSIVE DumpMembers(_)
DumpItems(xs) ==
    IF xs = <<>> THEN <<>>
    ELSE json_dumps(Head(xs))
         \o (IF Len(xs) > 1 THEN <<44>> ELSE <<>>) \o DumpItems(Tail(xs))
DumpMembers(ms) ==
    IF ms = <<>> THEN <<>>
    ELSE StrText(Head(ms)[1]) \o <<58>> \o json_dumps(Head(ms)[2])
         \o (IF Len(ms) > 1 THEN <<44>> ELSE <<>>) \o DumpMembers(Tail(ms))
json_dumps(x) ==
    CASE x.t = "int" -> IntText(x.v)
      [] x.t = "str" -> StrText(x.v)
      [] x.t = "list" -> <<91>> \o DumpItems(x.v) \o <<93>>
      [] x.t = "obj" -> <<123>> \o DumpMembers(x.v) \o <<125>>

(***************************************************************************)
(* json.loads on the same subset. A parse result is                        *)
(* [ok, val, pos]: pos is the index of the first unread byte.              *)
(***************************************************************************)
PFail == [ok |-> FALSE, val |-> None, pos |-> 0]
POk(v, p) == [ok |-> TRUE, val |-> v, pos |-> p]

At(b, i) == IF i >= 1 /\ i <= Len(b) THEN b[i] ELSE 0 - 1

IsDigit(c) == c >= 48 /\ c <= 57

RECURSIVE ScanDigits(_, _, _)
\* reads digits from position i on, acc is the value so far
ScanDigits(b, i, acc) ==
    IF IsDigit(At(b, i)) THEN ScanDigits(b, i + 1, acc * 10 + (At(b, i) - 48))
    ELSE POk(acc, i)

ParseInt(b, i) ==
    IF At(b, i) = 45
    THEN IF IsDigit(At(b, i + 1))
         THEN LET r == ScanDigits(b, i + 1, 0) IN POk(JInt(0 - r.val), r.pos)
         ELSE PFail
    ELSE IF IsDigit(At(b, i))
         THEN LET r == ScanDigits(b, i, 0) IN POk(JInt(r.val), r.pos)
         ELSE PFail

\* value of a hexadecimal digit; -1: not one
HexVal(ch) ==
    IF IsDigit(ch) THEN ch - 48
    ELSE IF ch >= 97 /\ ch <= 102 THEN ch - 97 + 10
    ELSE IF ch >= 65 /\ ch <= 70 THEN ch - 65 + 10
    ELSE 0 - 1

\* the character a two-character escape stands for; -1: not an escape
Unescape(d) ==
    CASE d = 34 -> 34 [] d = 92 -> 92 [] d = 47 -> 47 [] d = 98 -> 8
      [] d = 102 -> 12 [] d = 110 -> 10 [] d = 114 -> 13 [] d = 116 -> 9
      [] OTHER -> 0 - 1

RECURSIVE ScanStr(_, _, _)
\* reads the body of a string after its opening quote
ScanStr(b, i, acc) ==
    LET c == At(b, i) IN
    IF c < 0 THEN PFail
    ELSE IF c = 34 THEN POk(acc, i + 1)
    ELSE IF c = 92
         THEN LET d == At(b, i + 1) IN
              IF d = 117
              THEN IF \A k \in 2..5 : HexVal(At(b, i + k)) >= 0
                   THEN ScanStr(b, i + 6,
                                Append(acc, HexVal(At(b, i + 2)) * 4096
                                            + HexVal(At(b, i + 3)) * 256
                                            + HexVal(At(b, i + 4)) * 16
                                            + HexVal(At(b, i + 5))))
                   ELSE PFail
              ELSE IF Unescape(d) >= 0 THEN ScanStr(b, i + 2, Append(acc, Unescape(d)))
              ELSE PFail
    ELSE IF c < 32 THEN PFail
    ELSE ScanStr(b, i + 1, Append(acc, c))

ParseStr(b, i) ==
    IF At(b, i) = 34
    THEN LET r == ScanStr(b, i + 1, <<>>) IN
         IF r.ok THEN POk(JStr(r.val), r.pos) ELSE PFail
    ELSE PFail

RECURSIVE ParseValue(_, _)
RECURSIVE ParseItems(_, _, _)
RECURSIVE ParseMembers(_, _, _)
\* items of a list after "[" or after a ","
ParseItems(b, i, acc) ==
    LET r == ParseValue(b, i) IN
    IF ~r.ok THEN PFail
    ELSE IF At(b, r.pos) = 44 THEN ParseItems(b, r.pos + 1, Append(acc, r.val))
    ELSE IF At(b, r.pos) = 93 THEN POk(JList(Append(acc, r.val)), r.pos + 1)
    ELSE PFail
\* members of an object after "{" or after a ","
ParseMembers(b, i, acc) ==
    LET k == ParseStr(b, i) IN
    IF ~k.ok \/ At(b, k.pos) # 58 THEN PFail
    ELSE LET r == ParseValue(b, k.pos + 1) IN
         IF ~r.ok THEN PFail
         ELSE IF At(b, r.pos) = 44
              THEN ParseMembers(b, r.pos + 1, Append(acc, <<k.val.v, r.val>>))
         ELSE IF At(b, r.pos) = 125
              THEN POk(JObj(Append(acc, <<k.val.v, r.val>>)), r.pos + 1)
         ELSE PFail
ParseValue(b, i) ==
    LET c == At(b, i) IN
    IF c = 34 THEN ParseStr(b, i)
    ELSE IF c = 45 \/ IsDigit(c) THEN ParseInt(b, i)
    ELSE IF c = 91
         THEN IF At(b, i + 1) = 93 THEN POk(JList(<<>>), i + 2)
              ELSE ParseItems(b, i + 1, <<>>)
    ELSE IF c = 123
         THEN IF At(b, i + 1) = 125 THEN POk(JObj(<<>>), i + 2)
              ELSE ParseMembers(b, i + 1, <<>>)
    ELSE PFail

\* json.loads(raw): the whole text must be one value; [ok, val]
json_loads(b) ==
    LET r == ParseValue(b, 1) IN
    IF r.ok /\ r.pos = Len(b) + 1 THEN [ok |-> TRUE, val |-> r.val]
    ELSE [ok |-> FALSE, val |-> None]

(***************************************************************************)
(* base64.urlsafe_b64encode / base64.urlsafe_b64decode. A token is the     *)
(* sequence of the ASCII codes of its characters.                          *)
(***************************************************************************)
\* the URL-safe alphabet: A-Z a-z 0-9 - _
B64Char(i) ==
    IF i < 26 THEN 65 + i
    ELSE IF i < 52 THEN 97 + (i - 26)
    ELSE IF i < 62 THEN 48 + (i - 52)
    ELSE IF i = 62 THEN 45 ELSE 95

\* urlsafe_b64decode maps "-" and "_" to "+" and "/" and then decodes the
\* standard alphabet, so both spellings of 62 and 63 are data characters;
\* -1: not a data character
B64Val(ch) ==
    IF ch >= 65 /\ ch <= 90 THEN ch - 65
    ELSE IF ch >= 97 /\ ch <= 122 THEN ch - 97 + 26
    ELSE IF ch >= 48 /\ ch <= 57 THEN ch - 48 + 52
    ELSE IF ch = 45 \/ ch = 43 THEN 62
    ELSE IF ch = 95 \/ ch = 47 THEN 63
    ELSE 0 - 1

Pow64(k) == IF k = 0 THEN 1 ELSE IF k = 1 THEN 64 ELSE IF k = 2 THEN 4096 ELSE 262144

urlsafe_b64encode(raw) ==
    LET n == Len(raw)
        byte(j) == IF j <= n THEN raw[j] ELSE 0
        ch(p) ==
            LET g == (p - 1) \div 4
                k == (p - 1) % 4
                val == byte(3 * g + 1) * 65536 + byte(3 * g + 2) * 256 + byte(3 * g + 3)
            IN  IF k = 2 /\ 3 * g + 2 > n THEN 61
                ELSE IF k = 3 /\ 3 * g + 3 > n THEN 61
                ELSE B64Char((val \div Pow64(3 - k)) % 64)
    IN  [p \in 1..(4 * ((n + 2) \div 3)) |-> ch(p)]

\* binascii.a2b_base64 in its default (non-strict) mode: characters outside
\* the alphabet are skipped; a "=" ends the data once it completes the quad
\* that the data characters before it left open (a third data character and
\* one "=", or two data characters and two "="); data that stops inside a
\* quad without that padding is an error.
IsData(ch) == B64Val(ch) >= 0
\* number of data characters among s[1..i]
DataCount(s, i) == Len(SelectSeq(SubSeq(s, 1, i), IsData))
\* number of "=" among s[1..i] after the last data character before i
Pads(s, i) ==
    Cardinality({j \in 1..i : s[j] = 61 /\ \A h \in (j + 1)..i : ~IsData(s[h])})
a2b_base64(s) ==
    LET quad(i) == DataCount(s, i) % 4
        stops == {i \in DOMAIN s :
                     s[i] = 61 /\ quad(i) >= 2 /\ quad(i) + Pads(s, i) >= 4}
        padded == stops # {}
        stop == IF padded THEN CHOOSE i \in stops : \A j \in stops : i <= j
                ELSE Len(s) + 1
        d == SelectSeq(SubSeq(s, 1, stop - 1), IsData)
        n == Len(d)
        nbytes == 3 * (n \div 4) + (IF n % 4 = 0 THEN 0 ELSE (n % 4) - 1)
        sx(j) == IF j <= n THEN B64Val(d[j]) ELSE 0
        byte(p) ==
            LET g == (p - 1) \div 3
                k == (p - 1) % 3
                val == sx(4 * g + 1) * 262144 + sx(4 * g + 2) * 4096
                       + sx(4 * g + 3) * 64 + sx(4 * g + 4)
            IN  IF k = 0 THEN val \div 65536
                ELSE IF k = 1 THEN (val \div 256) % 256
                ELSE val % 256
    IN  IF ~padded /\ n % 4 # 0 THEN [ok |-> FALSE, val |-> None]
        ELSE [ok |-> TRUE, val |-> [p \in 1..nbytes |-> byte(p)]]

\* [ok, val]: the decoded bytes, or ok = FALSE for binascii.Error
urlsafe_b64decode(s) == a2b_base64(s)

(***************************************************************************)
(* CursorV1 (pydantic model) and the cursor codec.                         *)
(***************************************************************************)
\* CursorV1(run_id=..., ps=...) with the other fields at their defaults
CursorV1(run_id, ps) ==
    [v |-> 1, kinds |-> ORDER, offset |-> 0, ps |-> ps,
     run_id |-> run_id, order_key |-> ORDER_KEY]

\* c.model_dump(): the fields in declaration order
model_dump(c) ==
    JObj(<< <<F_v, JInt(c.v)>>,
            <<F_kinds, JList([i \in DOMAIN c.kinds |-> JStr(c.kinds[i])])>>,
            <<F_offset, JInt(c.offset)>>,
            <<F_ps, JInt(c.ps)>>,
            <<F_run_id, JStr(c.run_id)>>,
            <<F_order_key, JStr(c.order_key)>> >>)

\* a token with its "=" padding stripped
encode_cursor_NoPadding(c) ==
    LET NotPad(ch) == ch # 61
    IN  SelectSeq(urlsafe_b64encode(json_dumps(model_dump(c))), NotPad)

encode_cursor(c) == urlsafe_b64encode(json_dumps(model_dump(c)))

\* dict semantics of a parsed object: the last member with the key wins
HasKey(ms, k) == \E i \in DOMAIN ms : ms[i][1] = k
Lookup(ms, k) ==
    LET i == CHOOSE j \in DOMAIN ms :
                 ms[j][1] = k /\ \A h \in DOMAIN ms : ms[h][1] = k => h <= j
    IN  ms[i][2]

\* pydantic validation of one field; [ok, val]
VOk(v) == [ok |-> TRUE, val |-> v]
VFail == [ok |-> FALSE, val |-> None]
\* int field: an integer, or (lax mode) a string holding one
IntField(ms, k, default) ==
    IF ~HasKey(ms, k) THEN VOk(default)
    ELSE LET x == Lookup(ms, k) IN
         IF x.t = "int" THEN VOk(x.v)
         ELSE IF x.t = "str"
              THEN LET r == ParseInt(x.v, 1) IN
                   IF r.ok /\ r.pos = Len(x.v) + 1 THEN VOk(r.val.v) ELSE VFail
         ELSE VFail
\* str field: only a string
StrField(ms, k) ==
    LET x == Lookup(ms, k) IN IF x.t = "str" THEN VOk(x.v) ELSE VFail
\* list[str] field
StrListField(ms, k, default) ==
    IF ~HasKey(ms, k) THEN VOk(default)
    ELSE LET x == Lookup(ms, k) IN
         IF x.t = "list" /\ \A i \in DOMAIN x.v : x.v[i].t = "str"
         THEN VOk([i \in DOMAIN x.v |-> x.v[i].v])
         ELSE VFail

\* CursorV1(**data): run_id is required, the other fields have defaults,
\* unknown keys are ignored
ValidateCursorV1(data) ==
    IF data.t # "obj" THEN VFail
    ELSE LET ms == data.v
             fv == IntField(ms, F_v, 1)
             fk == StrListField(ms, F_kinds, ORDER)
             fo == IntField(ms, F_offset, 0)
             fp == IntField(ms, F_ps, 100)
             fr == IF HasKey(ms, F_run_id) THEN StrField(ms, F_run_id) ELSE VFail
             fq == IF HasKey(ms, F_order_key) THEN StrField(ms, F_order_key)
                   ELSE VOk(ORDER_KEY)
         IN  IF fv.ok /\ fk.ok /\ fo.ok /\ fp.ok /\ fr.ok /\ fq.ok
             THEN VOk([v |-> fv.val, kinds |-> fk.val, offset |-> fo.val,
                       ps |-> fp.val, run_id |-> fr.val, order_key |-> fq.val])
             ELSE VFail

\* decode_cursor(s): [ok, val]; ok = FALSE stands for the exception raised
\* (binascii.Error, JSONDecodeError, ValidationError, ValueError)
\* if c.order_key != ORDER_KEY: raise ValueError; return c
CheckOrderKey(c) ==
    IF ~c.ok THEN VFail
    ELSE IF c.val.order_key # ORDER_KEY THEN VFail
    ELSE c
\* c = CursorV1(**data)
CursorOfData(data) ==
    IF ~data.ok THEN VFail ELSE CheckOrderKey(ValidateCursorV1(data.val))
\* data = json.loads(raw)
CursorOfRaw(raw) ==
    IF ~raw.ok THEN VFail ELSE CursorOfData(json_loads(raw.val))
decode_cursor(s) == CursorOfRaw(urlsafe_b64decode(s))

(***************************************************************************)
(* settings.py                                                             *)
(***************************************************************************)
PAGE_SIZE == 100
MAX_PAGE_SIZE == 500
WORKERS == 8

\* "cpr_"
RunIdPrefix == <<99,112,114,95>>

\* make_run_id(): "cpr_" + the UTC clock reading formatted to microseconds
\* + "Z"; the reading t is formatted here as its decimal digits
make_run_id(t) == RunIdPrefix \o Digits(t) \o <<90>>

(***************************************************************************)
(* The file tree. A file is [relpath, content, size]; a directory listing  *)
(* is the sequence of files in the order os.walk yields them.              *)
(***************************************************************************)
File(rel, content) == [relpath |-> rel, content |-> content, size |-> 10 * content]

\* relpaths: "a.cbl" "b.cbl" "c.cpy" "x.cbl" "y.cbl" "a.cpy" "d.txt" "sub/z.CBL"
P_a_cbl == <<97,46,99,98,108>>
P_b_cbl == <<98,46,99,98,108>>
P_c_cpy == <<99,46,99,112,121>>
P_x_cbl == <<120,46,99,98,108>>
P_y_cbl == <<121,46,99,98,108>>
P_a_cpy == <<97,46,99,112,121>>
P_d_txt == <<100,46,116,120,116>>
P_z_CBL == <<115,117,98,47,122,46,67,66,76>>

\* hashing.py sha256_file: the digest is a function of the bytes alone
\* (collisions are not modelled)
sha256_file(f) == <<"sha256", f.content>>

\* utils/fs.py KIND_MAP, keyed by extension
KIND_MAP ==
    {<< <<46,99,98,108>>, "cobol" >>, << <<46,99,111,98>>, "cobol" >>,
     << <<46,99,112,121>>, "copybook" >>, << <<46,99,112,121,98>>, "copybook" >>,
     << <<46,106,99,108>>, "jcl" >>, << <<46,98,109,115>>, "bms" >>,
     << <<46,100,100,108>>, "ddl" >>}

\* str.lower() on ASCII
Lower(p) == [i \in DOMAIN p |-> IF p[i] >= 65 /\ p[i] <= 90 THEN p[i] + 32 ELSE p[i]]

MaxOf(S) == CHOOSE x \in S : \A y \in S : y <= x
MinOf(S) == CHOOSE x \in S : \A y \in S : x <= y

\* os.path.splitext(p)[1]: from the last "." of the last path component,
\* unless only dots precede it there
SplitExt(p) ==
    LET sep == MaxOf({0} \cup {i \in DOMAIN p : p[i] = 47})
        dot == MaxOf({0} \cup {i \in DOMAIN p : p[i] = 46})
    IN  IF dot > sep /\ \E j \in (sep + 1)..(dot - 1) : p[j] # 46
        THEN SubSeq(p, dot, Len(p))
        ELSE <<>>

detect_kind(relpath) ==
    LET ext == SplitExt(Lower(relpath)) IN
    IF \E e \in KIND_MAP : e[1] = ext
    THEN (CHOOSE e \in KIND_MAP : e[1] = ext)[2]
    ELSE "other"

\* walk_index(root): one SourceIndexFile per listed file, in walk order
walk_index(listing) ==
    [i \in DOMAIN listing |->
        [relpath |-> listing[i].relpath,
         size_bytes |-> listing[i].size,
         sha256 |-> sha256_file(listing[i]),
         kind |-> detect_kind(listing[i].relpath)]]

(***************************************************************************)
(* The catalog (parse_repo.py, "Plan lists from index").                   *)
(***************************************************************************)
\* str comparison: lexicographic by code point
StrLess(a, b) ==
    \E i \in 1..(Len(a) + 1) :
        /\ \A j \in 1..(i - 1) : j <= Len(b) /\ a[j] = b[j]
        /\ i <= Len(b)
        /\ (i = Len(a) + 1 \/ a[i] < b[i])

\* the files in the order the index lists them
SortedByRelpath_AsListed(fs) == fs

\* sorted(fs, key=lambda x: x.relpath): stable
SortedByRelpath(fs) ==
    LET rank(i) == Cardinality({j \in DOMAIN fs :
                        \/ StrLess(fs[j].relpath, fs[i].relpath)
                        \/ (fs[j].relpath = fs[i].relpath /\ j < i)})
    IN  [k \in DOMAIN fs |-> fs[CHOOSE i \in DOMAIN fs : rank(i) = k - 1]]

InList(k, ks) == \E i \in DOMAIN ks : ks[i] = k

\* "source-index"
SourceIndexKey == <<115,111,117,114,99,101,45,105,110,100,101,120>>

IsCopy(f) == f.kind = "copybook"
\* every file that is not a copybook taken for a program
IsCobol_NotCopybook(f) == f.kind # "copybook"

IsCobol(f) == f.kind = "cobol"
copy_files(files, resolved_kinds) ==
    IF InList(K_copybook, resolved_kinds) THEN SelectSeq(files, IsCopy) ELSE <<>>
prog_files(files, resolved_kinds) ==
    IF InList(K_program, resolved_kinds) THEN SelectSeq(files, IsCobol) ELSE <<>>

Entry(kind, f) == [kind |-> kind, key |-> f.relpath, sha |-> f.sha256]

BuildCatalog(files, resolved_kinds) ==
    LET cs == SortedByRelpath(copy_files(files, resolved_kinds))
        ps == SortedByRelpath(prog_files(files, resolved_kinds))
    IN  (IF InList(K_source_index, resolved_kinds)
         THEN << [kind |-> "cam.asset.source_index", key |-> SourceIndexKey, sha |-> <<>>] >>
         ELSE <<>>)
        \o (IF InList(K_copybook, resolved_kinds)
            THEN [i \in DOMAIN cs |-> Entry("cam.cobol.copybook", cs[i])] ELSE <<>>)
        \o (IF InList(K_program, resolved_kinds)
            THEN [i \in DOMAIN ps |-> Entry("cam.cobol.program", ps[i])] ELSE <<>>)

\* counts of the manifest and of the response's meta
Counts(files, resolved_kinds) ==
    [source_index |-> IF InList(K_source_index, resolved_kinds) THEN 1 ELSE 0,
     copybook |-> Len(copy_files(files, resolved_kinds)),
     program |-> Len(prog_files(files, resolved_kinds))]

\* Python's seq[start:end] for any integers start, end
PySlice(xs, start, end) ==
    LET n == Len(xs)
        clamp(i) == IF i < 0 THEN (IF n + i < 0 THEN 0 ELSE n + i)
                    ELSE (IF i > n THEN n ELSE i)
    IN  SubSeq(xs, clamp(start) + 1, clamp(end))

(***************************************************************************)
(* cache.py: the persisted state. disk maps each run id that has a run     *)
(* directory to [index, manifest, arts]; arts maps <<sha256, kind>> (the   *)
(* file "<sha256>.<kind>.json") to the JSON document stored there.         *)
(***************************************************************************)
VARIABLES
    tree,    \* root directory -> directory listing
    disk,    \* CACHE_DIR/runs
    clock,   \* the UTC clock reading (microseconds)
    req,     \* the arguments of the last cobol.parse_repo request
    resp,    \* its response, or the exception it raised
    trace,   \* local variables of that request at its end (history)
    walk,    \* the cursor walk a client is following (history)
    nfollow, \* number of requests that continued a walk (history)
    calls,   \* <<run id, key>> -> analyzer invocations on that file by the
             \* latest successive requests with force_reparse false (history)
    before,  \* CACHE_DIR/runs as the last request found it (history)
    cur_in,  \* codec: a CursorV1 to encode
    token,   \* codec: encode_cursor's result for it
    cur_out, \* codec: decode_cursor's result for that token
    cat,     \* catalog: an index, a kinds list and the catalog built from them
    pool,    \* fill step: the thread pool of one request and its main thread
    scan,    \* indexer: a walk of a tree whose files may vanish, and its result
    ids,     \* run ids: the wall clock and the ids make_run_id has issued
    race,    \* two requests that run at the same time against one run
    jobs     \* job servers: the JOBS table and what a poll has seen

\* the catalog and the pool before anything is built or submitted
NoCatalog == [files |-> <<>>, kinds |-> <<>>, out |-> None, prev |-> None]

NoIds == [now |-> 0, issued |-> <<>>]

NoRace == [file |-> None, force |-> <<>>, pc |-> <<>>, pos |-> <<>>, got |-> <<>>]

NoJobs == [table |-> <<>>, task |-> <<>>, todo |-> <<>>, seen |-> <<>>, on_loop |-> 0]

NoScan == [listing |-> <<>>, fate |-> <<>>, out |-> None]
NoPool ==
    [pc |-> "idle", n |-> 0, next |-> 1, st |-> <<>>, threads |-> 0, sem |-> 0,
     manifest |-> FALSE, page |-> {}]

vars == <<tree, disk, clock, req, resp, trace, walk, nfollow, calls, before,
          cur_in, token, cur_out, cat, pool, scan, ids, race, jobs>>

\* run_dir(cfg, run_id): mkdir(parents=True, exist_ok=True)
run_dir(d, run_id) ==
    IF run_id \in DOMAIN d THEN d
    ELSE (run_id :> [index |-> None, manifest |-> None, arts |-> <<>>]) @@ d

\* exists(source_index_path(cfg, run_id))
IndexExists(d, run_id) == run_id \in DOMAIN d /\ IsSome(d[run_id].index)

\* artifact_path(cfg, run_id, sha, kind)
artifact_path(sha, kind) == <<sha, kind>>

\* write_json(path, obj) on an artifact path: the file is replaced
write_json(arts, path, obj) == (path :> obj) @@ arts

(***************************************************************************)
(* cobol_parse_repo, in the order of its statements.                       *)
(***************************************************************************)
\* Python truthiness of an Optional[str] / Optional[list]
Truthy(o) == IsSome(o) /\ Get(o) # <<>>

\* resolved_kinds = input.kinds or ORDER
ResolveKinds(kinds) == IF Truthy(kinds) THEN Get(kinds) ELSE ORDER

\* for k in resolved_kinds: if k not in ORDER: raise ValueError
UnknownKind(resolved_kinds) ==
    \E i \in DOMAIN resolved_kinds : ~InList(resolved_kinds[i], ORDER)

\* effective_page_size = input.page_size or cfg.PAGE_SIZE, capped
EffectivePageSize(page_size) ==
    LET p == IF page_size = None \/ page_size = Some(0) THEN PAGE_SIZE ELSE Get(page_size)
    IN  IF p > MAX_PAGE_SIZE THEN MAX_PAGE_SIZE ELSE p

\* os.path.isdir(root)
IsDir(t, root) == root \in DOMAIN t

\* cur_from_input: the decoded cursor, None when no cursor was given or
\* when decode_cursor raised
Caught(r) == IF r.ok THEN Some(r.val) ELSE None
CurFromInput(cursor) ==
    IF ~Truthy(cursor) THEN None ELSE Caught(decode_cursor(Get(cursor)))

\* the explicit run_id first, then the cursor's
ResolveRunId_PrefersExplicit(cur_from_input, run_id, now) ==
    IF Truthy(run_id) THEN Get(run_id)
    ELSE IF IsSome(cur_from_input) /\ Get(cur_from_input).run_id # <<>>
    THEN Get(cur_from_input).run_id
    ELSE make_run_id(now)

\* the run_id parameter is never looked at
ResolveRunId_IgnoresRunId(cur_from_input, run_id, now) ==
    IF IsSome(cur_from_input) /\ Get(cur_from_input).run_id # <<>>
    THEN Get(cur_from_input).run_id
    ELSE make_run_id(now)

\* run_id_val = (cur_from_input.run_id if cur_from_input else None)
\*              or input.run_id or make_run_id()
ResolveRunId(cur_from_input, run_id, now) ==
    IF IsSome(cur_from_input) /\ Get(cur_from_input).run_id # <<>>
    THEN Get(cur_from_input).run_id
    ELSE IF Truthy(run_id) THEN Get(run_id)
    ELSE make_run_id(now)

\* if exists(src_index_path) and (cur_from_input or input.run_id): load
LoadsIndex(d, run_id_val, cur_from_input, run_id) ==
    IndexExists(d, run_id_val) /\ (IsSome(cur_from_input) \/ Truthy(run_id))

\* a source index walked anew by every request
SourceIndex_Rewalks(d, t, root, run_id_val, cur_from_input, run_id) ==
    [root |-> root, files |-> walk_index(t[root])]

\* the source index the request works with
SourceIndex(d, t, root, run_id_val, cur_from_input, run_id) ==
    IF LoadsIndex(d, run_id_val, cur_from_input, run_id)
    THEN Get(d[run_id_val].index)
    ELSE [root |-> root, files |-> walk_index(t[root])]

\* "Pagination - initialize or advance cursor (bind to this run)"
BindCursor(cur_from_input, run_id_val, effective_page_size) ==
    IF IsSome(cur_from_input) /\ Get(cur_from_input).run_id = run_id_val
    THEN [Get(cur_from_input) EXCEPT !.ps = effective_page_size]
    ELSE CursorV1(run_id_val, effective_page_size)

\* end = min(start + effective_page_size, total)
\* a page end one entry past the page size
PageEnd_OneMore(start, effective_page_size, total) ==
    IF start + effective_page_size + 1 < total THEN start + effective_page_size + 1
    ELSE total

\* end = min(start + effective_page_size, total)
PageEnd(start, effective_page_size, total) ==
    IF start + effective_page_size < total THEN start + effective_page_size ELSE total

\* the artifact kind ("copybook" / "program") a catalog entry is stored under
Phase(entry) == IF entry.kind = "cam.cobol.copybook" THEN "copybook" ELSE "program"

\* the entries of the page a worker is submitted for
NeedsWork(entry) == entry.kind # "cam.asset.source_index"
Tasks(page_catalog) == SelectSeq(page_catalog, NeedsWork)

\* the file at os.path.join(root, rel), None when there is none
FileAt(t, root, rel) ==
    IF \E i \in DOMAIN t[root] : t[root][i].relpath = rel
    THEN Some(t[root][CHOOSE i \in DOMAIN t[root] : t[root][i].relpath = rel])
    ELSE None

\* normalize_cb2xml_tree / normalize_program_obj(...).model_dump(): the
\* analyzer's result for the bytes it read, with source = (relpath, sha256)
Normalized(phase, rel, sha, f) ==
    [kind |-> phase, source |-> [relpath |-> rel, sha256 |-> sha],
     parsed |-> Get(f).content]

\* ErrorArtifact(key=rel, data={"phase": ..., "error": str(e)}).model_dump()
ErrorArtifact(phase, rel) ==
    [kind |-> "error", key |-> rel, data |-> [phase |-> phase, error |-> "RuntimeError"]]

\* a cache check that never hits
CacheHit_Never(seen, entry, force_reparse) == FALSE

\* the cache check of work_copy / work_prog:
\* exists(outp) and not input.force_reparse
CacheHit(seen, entry, force_reparse) ==
    artifact_path(entry.sha, Phase(entry)) \in DOMAIN seen /\ ~force_reparse

\* a worker that records nothing when the analysis fails
Work_DropsError(seen, arts, entry, force_reparse, analysis, f) ==
    IF CacheHit(seen, entry, force_reparse)
    THEN [arts |-> arts, invoked |-> FALSE, failed |-> FALSE]
    ELSE IF analysis = "ok" /\ IsSome(f)
    THEN [arts |-> write_json(arts, artifact_path(entry.sha, Phase(entry)),
                              Normalized(Phase(entry), entry.key, entry.sha, f)),
          invoked |-> TRUE, failed |-> FALSE]
    ELSE [arts |-> arts, invoked |-> TRUE, failed |-> TRUE]

\* work_copy / work_prog for one entry. seen: the artifacts at the time of
\* the cache check; arts: the artifacts at the time of the write;
\* analysis: "ok" or "fail", the outcome of the analyzer on the file.
\* Result: [arts, invoked, failed].
Work(seen, arts, entry, force_reparse, analysis, f) ==
    IF CacheHit(seen, entry, force_reparse)
    THEN [arts |-> arts, invoked |-> FALSE, failed |-> FALSE]
    ELSE IF analysis = "ok" /\ IsSome(f)
    THEN [arts |-> write_json(arts, artifact_path(entry.sha, Phase(entry)),
                              Normalized(Phase(entry), entry.key, entry.sha, f)),
          invoked |-> TRUE, failed |-> FALSE]
    ELSE [arts |-> write_json(arts, artifact_path(entry.sha, "error"),
                              ErrorArtifact(Phase(entry), entry.key)),
          invoked |-> TRUE, failed |-> TRUE]

\* The pool and its drain. A schedule is [order, early]: order is the order
\* in which the workers of the page reach their write, early the workers
\* whose cache check ran before any write of the page (the others check
\* right before their own write). Result: [arts, invoked, failed], the two
\* sets holding the indices of tasks.
RECURSIVE Fill(_, _, _, _, _, _, _, _)
Fill(arts0, acc, tasks, sched, k, force_reparse, analysis, filesAt) ==
    IF k > Len(sched.order) THEN acc
    ELSE LET i == sched.order[k]
             w == Work(IF i \in sched.early THEN arts0 ELSE acc.arts, acc.arts,
                       tasks[i], force_reparse, analysis[i], filesAt[i])
         IN  Fill(arts0,
                  [arts |-> w.arts,
                   invoked |-> IF w.invoked THEN acc.invoked \cup {i} ELSE acc.invoked,
                   failed |-> IF w.failed THEN acc.failed \cup {i} ELSE acc.failed],
                  tasks, sched, k + 1, force_reparse, analysis, filesAt)

\* the manifest document
Manifest(run_id_val, root, resolved_kinds, effective_page_size, files) ==
    [run_id |-> run_id_val, paths_root |-> root, kinds |-> resolved_kinds,
     page_size |-> effective_page_size, counts |-> Counts(files, resolved_kinds)]

\* an item only for the entries that have a success artifact
Item_OnlySuccess(entry, arts, src_index) ==
    IF entry.kind = "cam.asset.source_index"
    THEN Some([kind |-> entry.kind, key |-> SourceIndexKey, data |-> src_index])
    ELSE IF artifact_path(entry.sha, Phase(entry)) \in DOMAIN arts
    THEN Some([kind |-> entry.kind, key |-> entry.key,
               data |-> arts[artifact_path(entry.sha, Phase(entry))]])
    ELSE None

\* "Build the page payload by reading cached artifacts now present":
\* the item of one entry, None when neither artifact exists
Item(entry, arts, src_index) ==
    IF entry.kind = "cam.asset.source_index"
    THEN Some([kind |-> entry.kind, key |-> SourceIndexKey, data |-> src_index])
    ELSE IF artifact_path(entry.sha, Phase(entry)) \in DOMAIN arts
    THEN Some([kind |-> entry.kind, key |-> entry.key,
               data |-> arts[artifact_path(entry.sha, Phase(entry))]])
    ELSE IF artifact_path(entry.sha, "error") \in DOMAIN arts
    THEN Some([kind |-> "error", key |-> entry.key,
               data |-> arts[artifact_path(entry.sha, "error")].data])
    ELSE None

AssemblePage(page_catalog, arts, src_index) ==
    LET found == SelectSeq([i \in DOMAIN page_catalog |->
                               Item(page_catalog[i], arts, src_index)], IsSome)
    IN  [i \in DOMAIN found |-> Get(found[i])]

\* a next cursor that resumes one entry too far
NextCursor_SkipsEntry(cur, end, total) ==
    IF end < total THEN Some(encode_cursor([cur EXCEPT !.offset = end + 1])) ELSE None

\* next_cur: if end < total: cur.offset = end; next_cur = encode_cursor(cur)
NextCursor(cur, end, total) ==
    IF end < total THEN Some(encode_cursor([cur EXCEPT !.offset = end])) ELSE None

\* [status, run, meta, artifacts, next_cursor]: the returned dict
\* (status "ok"), or the exception raised
Response(run_id_val, root, counts, effective_page_size, page, next_cur) ==
    [status |-> "ok",
     run |-> [run_id |-> run_id_val, paths_root |-> root],
     meta |-> [counts |-> counts, page_size |-> effective_page_size],
     artifacts |-> page,
     next_cursor |-> next_cur]

Raised(exc) ==
    [status |-> exc, run |-> None, meta |-> None, artifacts |-> <<>>,
     next_cursor |-> None]

\* the run directory made before the arguments are checked
DiskWhenRaised_CreatesRun(d, run_id_val) == run_dir(d, run_id_val)

\* the persisted state a request leaves behind when it raises on its
\* arguments: both checks precede run_dir(), so nothing has been touched
DiskWhenRaised(d, run_id_val) == d

\* the run's files when a manifest already there is kept
Persist_KeepsManifest(d1, run_id_val, src_index, manifest, arts) ==
    [d1 EXCEPT ![run_id_val] =
        [index |-> Some(src_index),
         manifest |-> IF IsSome(d1[run_id_val].manifest) THEN d1[run_id_val].manifest
                      ELSE Some(manifest),
         arts |-> arts]]

\* the run's files without the write of the source index
Persist_SkipsIndex(d1, run_id_val, src_index, manifest, arts) ==
    [d1 EXCEPT ![run_id_val] =
        [index |-> d1[run_id_val].index, manifest |-> Some(manifest), arts |-> arts]]

\* the run's files when the artifacts directory is one for all runs
Persist_SharedArtifacts(d1, run_id_val, src_index, manifest, arts) ==
    [r \in DOMAIN d1 |->
        IF r = run_id_val
        THEN [index |-> Some(src_index), manifest |-> Some(manifest), arts |-> arts]
        ELSE [d1[r] EXCEPT !.arts = arts @@ d1[r].arts]]

\* the run's files at the end of a served request: the source index (loaded
\* or written), the manifest (written) and the artifacts the workers left
Persist(d1, run_id_val, src_index, manifest, arts) ==
    [d1 EXCEPT ![run_id_val] =
        [index |-> Some(src_index), manifest |-> Some(manifest), arts |-> arts]]

\* history of cb2xml / ProLeap invocations (parse_copybook_xml, run_proleap
\* in work_copy / work_prog): a request with force_reparse ends the sequence
\* of requests without it against its run, and starts the count anew
AnalyzerCalls(c, run_id_val, force_reparse, invoked) ==
    LET kept == IF force_reparse THEN {p \in DOMAIN c : p[1] # run_id_val} ELSE DOMAIN c
        new == IF force_reparse THEN {} ELSE {<<run_id_val, k>> : k \in invoked}
    IN  [p \in kept \cup new |->
            (IF p \in kept THEN c[p] ELSE 0) + (IF p \in new THEN 1 ELSE 0)]

NoTrace ==
    [run_id |-> None, cur_from_input |-> None, loaded |-> FALSE,
     start |-> 0, end |-> 0, total |-> 0, page_catalog |-> <<>>,
     invoked |-> {}, failed |-> {}, serial_page |-> <<>>]

(***************************************************************************)
(* Bounds of the model and the arguments requests are drawn from.          *)
(***************************************************************************)
\* number of requests of a behaviour that do not continue a walk
MaxRequests == 2
\* number of requests of a behaviour that continue a walk
MaxFollows == 2
\* page_size arguments range over 1..MaxPageArg (and None, 0, -1, too large)
MaxPageArg == 2

\* directory listings the root may hold (os.walk order)
Listings ==
    { << File(P_b_cbl, 1), File(P_c_cpy, 2), File(P_a_cbl, 3) >>,
      << File(P_y_cbl, 1), File(P_x_cbl, 1), File(P_d_txt, 2) >>,
      << File(P_a_cpy, 1), File(P_z_CBL, 1) >>,
      << >> }

RepoRoot == "/repo"
MissingRoot == "/missing"

\* a run id no request has generated: "legacy"
CustomRunId == K_legacy
\* a run id that was never created: "kname"
GhostRunId == OtherOrderKey

PageSizeArgs ==
    {None, Some(0 - 1), Some(0), Some(MAX_PAGE_SIZE + 1)}
        \cup {Some(n) : n \in 1..MaxPageArg}

KindsArgs == {None, Some(<<K_program>>), Some(<<K_copybook, K_source_index>>)}

\* tokens that decode_cursor rejects: "AAA" (bad padding), a JSON object
\* without run_id, and a cursor of another ordering scheme
MalformedToken == <<65,65,65>>
NoRunIdToken == urlsafe_b64encode(json_dumps(JObj(<< <<F_offset, JInt(1)>> >>)))
OtherSchemeToken(run_id) ==
    encode_cursor([CursorV1(run_id, 1) EXCEPT !.order_key = OtherOrderKey, !.offset = 1])
\* well-formed tokens no response has issued: for a run that was never
\* created, and with an empty run id
GhostToken == encode_cursor([CursorV1(GhostRunId, 1) EXCEPT !.offset = 1])
EmptyRunToken == encode_cursor([CursorV1(<<>>, 1) EXCEPT !.offset = 1])

Args(root, page_size, cursor, kinds, force_reparse, run_id) ==
    [paths_root |-> root, page_size |-> page_size, cursor |-> cursor, kinds |-> kinds,
     force_reparse |-> force_reparse, run_id |-> run_id]

\* The requests explored from a state (d: the persisted runs, last: the
\* previous response).
\* a first request: no cursor, no run id
FreshRequests ==
    {Args(RepoRoot, ps, None, None, FALSE, None) : ps \in PageSizeArgs}
        \cup {Args(RepoRoot, ps, None, k, FALSE, None) :
                ps \in {None, Some(1)}, k \in KindsArgs \ {None}}
        \cup {Args(RepoRoot, Some(2), None, Some(ORDER), FALSE, None)}
\* requests that raise on their arguments
ShapeErrorRequests(d, last) ==
    {Args(RepoRoot, None, c, Some(<<K_program, K_legacy>>), FALSE, None) :
        c \in {None, last.next_cursor}}
        \cup {Args(MissingRoot, None, None, None, FALSE, r) :
                r \in {None} \cup {Some(x) : x \in DOMAIN d}}
\* requests that pass the cursor the previous response has returned
CursorRequests(d, last) ==
    {Args(RepoRoot, ps, c, k, f, None) :
        ps \in {Some(1), Some(0 - 1)},
        c \in {last.next_cursor} \ {None},
        k \in {None, Some(<<K_program>>)},
        f \in BOOLEAN}
        \cup {Args(RepoRoot, Some(1), c, None, FALSE, r) :
                c \in {last.next_cursor} \ {None},
                r \in {Some(CustomRunId)} \cup {Some(x) : x \in DOMAIN d}}
\* requests that name a run by run_id
RunIdRequests(d) ==
    {Args(RepoRoot, None, None, k, f, Some(r)) :
        k \in {None, Some(<<K_program>>)}, f \in BOOLEAN, r \in DOMAIN d}
        \cup {Args(RepoRoot, Some(1), None, None, FALSE, Some(r)) : r \in DOMAIN d}
        \cup {Args(RepoRoot, None, None, None, FALSE, r) :
                r \in {Some(CustomRunId), Some(<<>>)}}
\* requests that pass a token no response has returned
ForgedRequests(d) ==
    {Args(RepoRoot, Some(1), Some(c), None, FALSE, None) :
        c \in {MalformedToken, NoRunIdToken, GhostToken, EmptyRunToken}
                 \cup {OtherSchemeToken(x) : x \in DOMAIN d}}
        \cup {Args(RepoRoot, Some(1), Some(MalformedToken), None, FALSE, Some(x)) :
                x \in DOMAIN d}

Inputs(d, last) ==
    FreshRequests \cup ShapeErrorRequests(d, last) \cup CursorRequests(d, last)
        \cup RunIdRequests(d) \cup ForgedRequests(d)

Perms(n) == {f \in [1..n -> 1..n] : \A i, j \in 1..n : f[i] = f[j] => i = j}

\* the schedule in which each worker runs to its end before the next starts
SerialSchedule(tasks) == [order |-> [i \in DOMAIN tasks |-> i], early |-> {}]

\* the schedules of the pool. Workers of entries with different sha256
\* touch different files, so their order cannot be observed: one schedule
\* stands for all
Schedules(tasks) ==
    LET n == Len(tasks) IN
    IF \A i, j \in 1..n : tasks[i].sha = tasks[j].sha => i = j
    THEN {SerialSchedule(tasks)}
    ELSE {s \in [order : Perms(n), early : SUBSET (1..n)] : s.order[1] \notin s.early}

(***************************************************************************)
(* History: the cursor walk of a client. A served request without cursor   *)
(* and with a positive (or omitted) page size starts a walk; the client    *)
(* continues it by re-issuing that request with the pending next_cursor.   *)
(* args: the first request; next: the pending cursor; keys: the keys of    *)
(* the items received so far.                                              *)
(* trace.serial_page: the page the request would have returned, from the   *)
(* same state and with the same analyzer results, had its workers run one  *)
(* after the other in page order.                                          *)
(***************************************************************************)
NoArgs == Args("", None, None, None, FALSE, None)

NoWalk ==
    [active |-> FALSE, done |-> FALSE, run_id |-> <<>>, args |-> NoArgs,
     next |-> None, keys |-> <<>>, pages |-> 0]

PositivePage(input) == input.page_size = None \/ Get(input.page_size) > 0

Keys(items) == [i \in DOMAIN items |-> items[i].key]

\* the request that continues the walk
WalkRequest(w) == [w.args EXCEPT !.cursor = w.next]

WalkAfter(w, input, r) ==
    IF r.status = "ok" /\ ~Truthy(input.cursor) /\ PositivePage(input)
    THEN [active |-> TRUE, done |-> r.next_cursor = None, run_id |-> r.run.run_id,
          args |-> input, next |-> r.next_cursor, keys |-> Keys(r.artifacts),
          pages |-> 1]
    ELSE IF w.active /\ ~w.done /\ input = WalkRequest(w) /\ r.status = "ok"
    THEN [w EXCEPT !.done = r.next_cursor = None, !.next = r.next_cursor,
                   !.keys = w.keys \o Keys(r.artifacts), !.pages = w.pages + 1]
    ELSE w

(***************************************************************************)
(* The state machine.                                                      *)
(***************************************************************************)
Init ==
    /\ tree \in {(RepoRoot :> l) : l \in Listings}
    /\ disk = <<>>
    /\ clock = 0
    /\ req = NoArgs
    /\ resp = Raised("none")
    /\ trace = NoTrace
    /\ walk = NoWalk
    /\ nfollow = 0
    /\ calls = <<>>
    /\ before = <<>>
    /\ cur_in = None /\ token = None /\ cur_out = None
    /\ cat = NoCatalog /\ pool = NoPool /\ scan = NoScan
    /\ ids = NoIds /\ race = NoRace /\ jobs = NoJobs

\* one cobol.parse_repo request, from its arguments to its return; each
\* local of the function is bound once, in statement order
cobol_parse_repo(input) ==
    \E resolved_kinds \in {ResolveKinds(input.kinds)},
       effective_page_size \in {EffectivePageSize(input.page_size)},
       root \in {input.paths_root},
       cur_from_input \in {CurFromInput(input.cursor)} :
    \E run_id_val \in {ResolveRunId(cur_from_input, input.run_id, clock + 1)} :
    /\ clock' = clock + 1
    /\ req' = input
    /\ tree' = tree
    /\ before' = disk
    /\ UNCHANGED <<cur_in, token, cur_out, cat, pool, scan, ids, race, jobs>>
    /\ IF UnknownKind(resolved_kinds) \/ ~IsDir(tree, root)
       THEN /\ resp' = Raised(IF UnknownKind(resolved_kinds) THEN "ValueError"
                              ELSE "FileNotFoundError")
            /\ disk' = DiskWhenRaised(disk, run_id_val)
            /\ trace' = NoTrace
            /\ walk' = walk
            /\ calls' = calls
       ELSE \E d1 \in {run_dir(disk, run_id_val)} :
            \E loaded \in {LoadsIndex(d1, run_id_val, cur_from_input, input.run_id)},
               src_index \in {SourceIndex(d1, tree, root, run_id_val, cur_from_input,
                                          input.run_id)} :
            \E catalog \in {BuildCatalog(src_index.files, resolved_kinds)},
               cur \in {BindCursor(cur_from_input, run_id_val, effective_page_size)} :
            \E total \in {Len(catalog)}, start \in {cur.offset} :
            \E end \in {PageEnd(start, effective_page_size, total)} :
            \E page_catalog \in {PySlice(catalog, start, end)} :
            \E tasks \in {Tasks(page_catalog)} :
            \E filesAt \in {[i \in DOMAIN tasks |-> FileAt(tree, root, tasks[i].key)]},
               arts0 \in {d1[run_id_val].arts} :
            \E sched \in Schedules(tasks), analysis \in [DOMAIN tasks -> {"ok", "fail"}] :
            \E fill \in {Fill(arts0, [arts |-> arts0, invoked |-> {}, failed |-> {}],
                              tasks, sched, 1, input.force_reparse, analysis, filesAt)} :
            \E serial \in {Fill(arts0, [arts |-> arts0, invoked |-> {}, failed |-> {}],
                                tasks, SerialSchedule(tasks), 1, input.force_reparse,
                                analysis, filesAt)} :
            \E manifest \in {Manifest(run_id_val, root, resolved_kinds,
                                      effective_page_size, src_index.files)},
               page \in {AssemblePage(page_catalog, fill.arts, src_index)},
               next_cur \in {NextCursor(cur, end, total)} :
            \E r \in {Response(run_id_val, root, manifest.counts, effective_page_size,
                               page, next_cur)} :
                /\ disk' = Persist(d1, run_id_val, src_index, manifest, fill.arts)
                /\ resp' = r
                /\ trace' = [run_id |-> Some(run_id_val),
                             cur_from_input |-> cur_from_input,
                             loaded |-> loaded,
                             start |-> start, end |-> end, total |-> total,
                             page_catalog |-> page_catalog,
                             invoked |-> {tasks[i].key : i \in fill.invoked},
                             failed |-> {tasks[i].key : i \in fill.failed},
                             serial_page |-> AssemblePage(page_catalog, serial.arts,
                                                          src_index)]
                /\ walk' = WalkAfter(walk, input, r)
                /\ calls' = AnalyzerCalls(calls, run_id_val, input.force_reparse,
                                          {tasks[i].key : i \in fill.invoked})

\* a client sends any request
Request ==
    /\ clock - nfollow < MaxRequests
    /\ \E input \in Inputs(disk, resp) : cobol_parse_repo(input)
    /\ nfollow' = nfollow

\* the client that follows the walk re-issues its request with next_cursor
Follow ==
    /\ nfollow < MaxFollows
    /\ walk.active /\ ~walk.done
    /\ cobol_parse_repo(WalkRequest(walk))
    /\ nfollow' = nfollow + 1

Next == Request \/ Follow

Spec == Init /\ [][Next]_vars

(***************************************************************************)
(* The cursor codec on its own: a cursor is encoded, the token decoded.    *)
(***************************************************************************)
\* offsets of the cursors range over -1..MaxOffset
MaxOffset == 2

\* a string with characters json.dumps escapes: a " \ newline e-acute
QuotedStr == <<97, 34, 92, 10, 233>>

CodecKinds ==
    {<<>>, ORDER, <<K_program>>, <<K_copybook, K_copybook>>, <<QuotedStr, K_legacy>>}

CodecRunIds == {<<>>, K_legacy, make_run_id(1), QuotedStr}

\* CursorV1 objects with the current order key
Cursors ==
    {[v |-> v, kinds |-> k, offset |-> o, ps |-> p, run_id |-> r,
      order_key |-> ORDER_KEY] :
        v \in {1, 2}, k \in CodecKinds, o \in (0 - 1)..MaxOffset,
        p \in {1, PAGE_SIZE, MAX_PAGE_SIZE}, r \in CodecRunIds}

InitCodec ==
    /\ tree = (RepoRoot :> <<>>)
    /\ disk = <<>>
    /\ clock = 0
    /\ req = NoArgs
    /\ resp = Raised("none")
    /\ trace = NoTrace
    /\ walk = NoWalk
    /\ nfollow = 0
    /\ calls = <<>>
    /\ before = <<>>
    /\ cur_in \in {Some(c) : c \in Cursors}
    /\ token = None
    /\ cur_out = None
    /\ cat = NoCatalog /\ pool = NoPool /\ scan = NoScan
    /\ ids = NoIds /\ race = NoRace /\ jobs = NoJobs

Encode ==
    /\ IsSome(cur_in) /\ token = None
    /\ token' = Some(encode_cursor(Get(cur_in)))
    /\ UNCHANGED <<tree, disk, clock, req, resp, trace, walk, nfollow, calls, before,
                   cur_in, cur_out, cat, pool, scan, ids, race, jobs>>

Decode ==
    /\ IsSome(token) /\ cur_out = None
    /\ cur_out' = Some(decode_cursor(Get(token)))
    /\ UNCHANGED <<tree, disk, clock, req, resp, trace, walk, nfollow, calls, before,
                   cur_in, token, cat, pool, scan, ids, race, jobs>>

NextCodec == Encode \/ Decode

SpecCodec == InitCodec /\ [][NextCodec]_vars

(***************************************************************************)
(* The catalog as a function of the index and the kinds list: the index is *)
(* walk_index of a tree listed in any order, the kinds list any list of    *)
(* known kinds; the catalog is built, then built again from the same tree  *)
(* listed in another order and the same kinds asked in another order.      *)
(***************************************************************************)
MaxFiles == 3

CatalogPool ==
    <<File(P_b_cbl, 1), File(P_c_cpy, 2), File(P_a_cbl, 3), File(P_a_cpy, 1),
      File(P_d_txt, 2)>>

\* the trees of at most MaxFiles files of the pool, in every listing order
CatalogListings ==
    UNION {{[i \in 1..n |-> CatalogPool[pick[i]]] :
                pick \in {f \in [1..n -> DOMAIN CatalogPool] :
                            \A i, j \in 1..n : i # j => f[i] # f[j]}} :
           n \in 0..MaxFiles}

\* the lists of known kinds a request can resolve to
KindLists == UNION {[1..n -> Range(ORDER)] : n \in 1..3}

\* the rest of the state while no request is made
HandlerIdle ==
    /\ tree = (RepoRoot :> <<>>)
    /\ disk = <<>>
    /\ clock = 0
    /\ req = NoArgs
    /\ resp = Raised("none")
    /\ trace = NoTrace
    /\ walk = NoWalk
    /\ nfollow = 0
    /\ calls = <<>>
    /\ before = <<>>
    /\ cur_in = None /\ token = None /\ cur_out = None

InitCatalog ==
    /\ HandlerIdle
    /\ pool = NoPool /\ scan = NoScan
    /\ ids = NoIds /\ race = NoRace /\ jobs = NoJobs
    /\ cat \in {[files |-> walk_index(l), kinds |-> k, out |-> None, prev |-> None] :
                    l \in CatalogListings, k \in KindLists}

\* parse_repo.py "Plan lists from index" and "Build global ordered catalog"
Build ==
    /\ cat.out = None
    /\ cat' = [cat EXCEPT !.out = Some(BuildCatalog(cat.files, cat.kinds))]
    /\ UNCHANGED <<tree, disk, clock, req, resp, trace, walk, nfollow, calls, before,
                   cur_in, token, cur_out, pool, scan, ids, race, jobs>>

\* the same, from another listing of the same files and another list of the
\* same kinds
Rebuild ==
    /\ IsSome(cat.out)
    /\ \E p \in Perms(Len(cat.files)),
          k \in {ks \in KindLists : Range(ks) = Range(cat.kinds)} :
        \E files \in {[i \in DOMAIN cat.files |-> cat.files[p[i]]]} :
            cat' = [files |-> files, kinds |-> k,
                    out |-> Some(BuildCatalog(files, k)), prev |-> cat.out]
    /\ UNCHANGED <<tree, disk, clock, req, resp, trace, walk, nfollow, calls, before,
                   cur_in, token, cur_out, pool, scan, ids, race, jobs>>

NextCatalog == Build \/ Rebuild

SpecCatalog == InitCatalog /\ [][NextCatalog]_vars

(***************************************************************************)
(* The fill step of one request, thread by thread (parse_repo.py, "Ensure  *)
(* artifacts for THIS PAGE only" to the page payload). pool.n: the workers *)
(* the page needs; pool.st[i]: "new" before task i is submitted, "queued"  *)
(* in the executor's work queue, "running" in a pool thread, "done" when   *)
(* work_copy / work_prog has returned; pool.threads: the threads the       *)
(* executor has started; pool.sem: its idle semaphore; pool.pc: the        *)
(* statement the request's own thread is at; pool.manifest: manifest.json  *)
(* written; pool.page: the tasks whose artifact the page assembly found.   *)
(***************************************************************************)
MaxTasks == 9

Running(st) == {i \in DOMAIN st : st[i] = "running"}
Queued(st) == {i \in DOMAIN st : st[i] = "queued"}

\* a submit starts a thread whenever none is idle
CanStartThread_Unbounded(threads) == TRUE

\* ThreadPoolExecutor(max_workers=cfg.WORKERS): a submit that finds no idle
\* thread starts one while fewer than max_workers exist
CanStartThread(threads) == threads < WORKERS

\* a barrier that opens at the first completed worker
AllDone_FirstCompleted(st) == \E i \in DOMAIN st : st[i] = "done"

\* every future of tasks has completed: what "for _ in as_completed(tasks)"
\* waits for before it ends, and the exit of the with block (shutdown(wait=True))
AllDone(st) == \A i \in DOMAIN st : st[i] = "done"

InitPool ==
    /\ HandlerIdle
    /\ cat = NoCatalog /\ scan = NoScan
    /\ ids = NoIds /\ race = NoRace /\ jobs = NoJobs
    /\ pool \in {[pc |-> "submit", n |-> n, next |-> 1, st |-> [i \in 1..n |-> "new"],
                   threads |-> 0, sem |-> 0, manifest |-> FALSE, page |-> {}] :
                  n \in 0..MaxTasks}

PoolUnchanged ==
    UNCHANGED <<tree, disk, clock, req, resp, trace, walk, nfollow, calls, before,
                cur_in, token, cur_out, cat, scan, ids, race, jobs>>

\* tasks.append(ex.submit(work, it)) for the next entry of the page; after
\* the last one the loop ends
Submit ==
    /\ pool.pc = "submit"
    /\ IF pool.next > pool.n
       THEN pool' = [pool EXCEPT !.pc = "drain"]
       ELSE pool' = [pool EXCEPT
                        !.st[pool.next] = "queued",
                        !.next = pool.next + 1,
                        !.sem = IF pool.sem > 0 THEN pool.sem - 1 ELSE 0,
                        !.threads = IF pool.sem = 0 /\ CanStartThread(pool.threads)
                                    THEN pool.threads + 1 ELSE pool.threads]
    /\ PoolUnchanged

\* a pool thread that runs nothing takes the oldest queued task
Start ==
    /\ Queued(pool.st) # {}
    /\ Cardinality(Running(pool.st)) < pool.threads
    /\ pool' = [pool EXCEPT !.st[MinOf(Queued(pool.st))] = "running"]
    /\ PoolUnchanged

\* work_copy / work_prog returns in some thread
Finish ==
    /\ \E i \in Running(pool.st) :
            pool' = [pool EXCEPT !.st[i] = "done", !.sem = pool.sem + 1]
    /\ PoolUnchanged

\* for _ in as_completed(tasks): pass
Drain ==
    /\ pool.pc = "drain"
    /\ AllDone(pool.st)
    /\ pool' = [pool EXCEPT !.pc = "shutdown"]
    /\ PoolUnchanged

\* the end of the with block: ex.shutdown(wait=True)
Shutdown ==
    /\ pool.pc = "shutdown"
    /\ AllDone(pool.st)
    /\ pool' = [pool EXCEPT !.pc = "manifest"]
    /\ PoolUnchanged

\* write_json(manifest_path(cfg, run_id_val), {...})
WriteManifest ==
    /\ pool.pc = "manifest"
    /\ pool' = [pool EXCEPT !.pc = "page", !.manifest = TRUE]
    /\ PoolUnchanged

\* the page payload: an entry gets its item from the artifact its worker
\* has left by now
Assemble ==
    /\ pool.pc = "page"
    /\ pool' = [pool EXCEPT !.pc = "return",
                            !.page = {i \in DOMAIN pool.st : pool.st[i] = "done"}]
    /\ PoolUnchanged

NextPool ==
    Submit \/ Start \/ Finish \/ Drain \/ Shutdown \/ WriteManifest \/ Assemble

SpecPool == InitPool /\ [][NextPool]_vars

(***************************************************************************)
(* The fill step with the analyzer subprocesses of its workers. A worker   *)
(* that runs is inside subprocess.run(java ...); the java process exits,   *)
(* or blocks and never exits on its own.                                   *)
(***************************************************************************)
MaxInvocations == 3

\* parse_program_with_proleap: subprocess.run(cmd, ..., timeout=per_file_timeout);
\* parse_copybook_with_cb2xml: subprocess.run(cmd, capture_output=True, text=True)
HasTimeout(kind) == kind = K_program

InitAnalyzer ==
    /\ HandlerIdle
    /\ cat = NoCatalog /\ scan = NoScan
    /\ ids = NoIds /\ race = NoRace /\ jobs = NoJobs
    /\ pool \in {[pc |-> "submit", n |-> n, next |-> 1, st |-> [i \in 1..n |-> "new"],
                   threads |-> 0, sem |-> 0, manifest |-> FALSE, page |-> {},
                   kinds |-> ks, art |-> [i \in 1..n |-> "none"], timedout |-> {}] :
                  n \in 0..MaxInvocations,
                  ks \in UNION {[1..m -> {K_copybook, K_program}] : m \in 0..MaxInvocations}}
    /\ DOMAIN pool.kinds = DOMAIN pool.st

\* the java process exits: returncode 0 and valid output (the worker writes the
\* normalized artifact), or RuntimeError (the worker writes an ErrorArtifact)
Exit ==
    /\ \E i \in Running(pool.st), a \in {"normalized", "error"} :
            pool' = [pool EXCEPT !.st[i] = "done", !.art[i] = a, !.sem = pool.sem + 1]
    /\ PoolUnchanged

\* the java process blocks
Hang ==
    /\ \E i \in Running(pool.st) : pool' = [pool EXCEPT !.st[i] = "hung"]
    /\ PoolUnchanged

\* subprocess.TimeoutExpired -> RuntimeError("ProLeap timeout ...") -> the
\* except branch of the worker writes an ErrorArtifact and returns
Expire ==
    /\ \E i \in DOMAIN pool.st :
            /\ pool.st[i] \in {"running", "hung"}
            /\ HasTimeout(pool.kinds[i])
            /\ pool' = [pool EXCEPT !.st[i] = "done", !.art[i] = "error",
                                    !.timedout = pool.timedout \cup {i},
                                    !.sem = pool.sem + 1]
    /\ PoolUnchanged

\* a pool thread that is in no worker takes the oldest queued task
StartWorker ==
    /\ Queued(pool.st) # {}
    /\ Cardinality({i \in DOMAIN pool.st : pool.st[i] \in {"running", "hung"}}) < pool.threads
    /\ pool' = [pool EXCEPT !.st[MinOf(Queued(pool.st))] = "running"]
    /\ PoolUnchanged

NextAnalyzer ==
    Submit \/ StartWorker \/ Exit \/ Hang \/ Expire \/ Drain \/ Shutdown
    \/ WriteManifest \/ Assemble

SpecAnalyzer == InitAnalyzer /\ [][NextAnalyzer]_vars

(***************************************************************************)
(* Requests against a tree that changes between them: files are added,     *)
(* removed and modified while runs exist.                                  *)
(***************************************************************************)
MaxVisits == 2

\* the trees the root may turn into: those of Listings, and the first of
\* them with b.cbl modified, a.cbl removed and y.cbl added
IndexListings ==
    Listings \cup {<< File(P_b_cbl, 4), File(P_c_cpy, 2), File(P_y_cbl, 1) >>}

\* first requests, requests with the cursor last returned, requests by run_id
IndexInputs(d, last) ==
    {Args(RepoRoot, ps, None, None, FALSE, None) : ps \in {None, Some(1)}}
        \cup {Args(RepoRoot, Some(1), c, None, FALSE, None) :
                c \in {last.next_cursor} \ {None}}
        \cup {Args(RepoRoot, None, None, None, f, Some(r)) :
                f \in BOOLEAN, r \in DOMAIN d}

Visit ==
    /\ clock < MaxVisits
    /\ \E input \in IndexInputs(disk, resp) : cobol_parse_repo(input)
    /\ nfollow' = nfollow

\* the files under the root change while no request is running
ChangeTree ==
    /\ tree' \in {(RepoRoot :> l) : l \in IndexListings} \ {tree}
    /\ UNCHANGED <<disk, clock, req, resp, trace, walk, nfollow, calls, before,
                   cur_in, token, cur_out, cat, pool, scan, ids, race, jobs>>

NextIndex == Visit \/ ChangeTree

SpecIndex == Init /\ [][NextIndex]_vars

(***************************************************************************)
(* walk_index on a tree that loses files during the walk. os.walk has      *)
(* listed the names; scan.fate tells of each listed file whether it stays, *)
(* is gone when os.stat reaches it, or is gone after os.stat and before    *)
(* sha256_file opens it.                                                   *)
(***************************************************************************)
Fates == {"stays", "gone_at_stat", "gone_at_open"}

\* the listed files that are still there, in walk order
Staying(listing, fate) ==
    LET idx == {i \in DOMAIN listing : fate[i] = "stays"}
        nth(k) == CHOOSE i \in idx : Cardinality({j \in idx : j < i}) = k - 1
    IN  [k \in 1..Cardinality(idx) |-> listing[nth(k)]]

\* walk_index(root): os.stat in try / except FileNotFoundError: continue;
\* sha256_file(ap) outside the try, its open() raising FileNotFoundError
walk_index_racing(listing, fate) ==
    IF \E i \in DOMAIN listing : fate[i] = "gone_at_open"
    THEN [ok |-> FALSE, exc |-> "FileNotFoundError", files |-> <<>>]
    ELSE [ok |-> TRUE, exc |-> "", files |-> walk_index(Staying(listing, fate))]

InitWalk ==
    /\ HandlerIdle
    /\ cat = NoCatalog /\ pool = NoPool
    /\ ids = NoIds /\ race = NoRace /\ jobs = NoJobs
    /\ scan \in {[listing |-> l, fate |-> f, out |-> None] :
                    l \in Listings, f \in UNION {[DOMAIN m -> Fates] : m \in Listings}}
    /\ DOMAIN scan.fate = DOMAIN scan.listing

WalkIndex ==
    /\ scan.out = None
    /\ scan' = [scan EXCEPT !.out = Some(walk_index_racing(scan.listing, scan.fate))]
    /\ UNCHANGED <<tree, disk, clock, req, resp, trace, walk, nfollow, calls, before,
                   cur_in, token, cur_out, cat, pool, ids, race, jobs>>

NextWalk == WalkIndex

SpecWalk == InitWalk /\ [][NextWalk]_vars

(***************************************************************************)
(* decode_cursor on tokens of any form: tokens encode_cursor has issued,   *)
(* such tokens damaged in transit, and tokens made by hand.                *)
(***************************************************************************)
IssuedTokens ==
    {encode_cursor([CursorV1(r, p) EXCEPT !.offset = o]) :
        r \in {K_legacy, make_run_id(1)}, p \in {1, PAGE_SIZE}, o \in 0..MaxOffset}

\* an issued token as it is, behind a "!", with a blank and a line feed
\* inside, without its last character, and with one more "="
DamagedForms(g) ==
    {g, <<33>> \o g, SubSeq(g, 1, 4) \o <<32, 10>> \o SubSeq(g, 5, Len(g)),
     SubSeq(g, 1, Len(g) - 1), g \o <<61>>}

\* the empty token, "AAA", b64("abc"), b64("[1]"), b64({"offset":1}),
\* b64({"run_id":"legacy"}) and tokens of another ordering scheme
HandMadeTokens ==
    {<<>>, MalformedToken, urlsafe_b64encode(<<97, 98, 99>>),
     urlsafe_b64encode(json_dumps(JList(<<JInt(1)>>))),
     NoRunIdToken,
     urlsafe_b64encode(json_dumps(JObj(<< <<F_run_id, JStr(K_legacy)>> >>))),
     OtherSchemeToken(K_legacy), OtherSchemeToken(make_run_id(1))}

Tokens == UNION {DamagedForms(g) : g \in IssuedTokens} \cup HandMadeTokens

InitDecode ==
    /\ tree = (RepoRoot :> <<>>)
    /\ disk = <<>>
    /\ clock = 0
    /\ req = NoArgs
    /\ resp = Raised("none")
    /\ trace = NoTrace
    /\ walk = NoWalk
    /\ nfollow = 0
    /\ calls = <<>>
    /\ before = <<>>
    /\ cur_in = None /\ cur_out = None
    /\ token \in {Some(t) : t \in Tokens}
    /\ cat = NoCatalog /\ pool = NoPool /\ scan = NoScan
    /\ ids = NoIds /\ race = NoRace /\ jobs = NoJobs

NextDecode == Decode

SpecDecode == InitDecode /\ [][NextDecode]_vars

(***************************************************************************)
(* Two requests at the same time on the same page of one run: one artifact *)
(* file, the worker of each request, and the page assembly of each request *)
(* after its own worker. race.file is None while the file does not exist,  *)
(* else its chunks; a chunk <<w, k>> is the k-th chunk of the document of  *)
(* writer w, <<0, 0>> a hole. Writer 0 is an earlier request.              *)
(***************************************************************************)
MaxChunks == 2

Requests2 == {1, 2}

\* the artifact as one writer leaves it when nothing interferes
CompleteDoc(w) == [k \in 1..MaxChunks |-> <<w, k>>]

\* f.write(chunk) at the writer's own file offset
WriteAt(file, k, w) ==
    [i \in 1..(IF k > Len(file) THEN k ELSE Len(file)) |->
        IF i = k THEN <<w, k>> ELSE IF i <= Len(file) THEN file[i] ELSE <<0, 0>>]

InitRace ==
    /\ HandlerIdle
    /\ cat = NoCatalog /\ pool = NoPool /\ scan = NoScan
    /\ ids = NoIds /\ jobs = NoJobs
    /\ race \in {[file |-> f, force |-> fr, pc |-> [r \in Requests2 |-> "check"],
                   pos |-> [r \in Requests2 |-> 0],
                   got |-> [r \in Requests2 |-> None]] :
                  f \in {None, Some(CompleteDoc(0))}, fr \in [Requests2 -> BOOLEAN]}

RaceUnchanged ==
    UNCHANGED <<tree, disk, clock, req, resp, trace, walk, nfollow, calls, before,
                cur_in, token, cur_out, cat, pool, scan, ids, jobs>>

\* work_copy / work_prog: if exists(outp) and not input.force_reparse: return
CheckCache(r) ==
    /\ race.pc[r] = "check"
    /\ race' = [race EXCEPT !.pc[r] = IF IsSome(race.file) /\ ~race.force[r]
                                       THEN "assemble" ELSE "open"]
    /\ RaceUnchanged

\* write_json: open(path, "w") creates the file or truncates it
OpenW(r) ==
    /\ race.pc[r] = "open"
    /\ race' = [race EXCEPT !.file = Some(<<>>), !.pos[r] = 0, !.pc[r] = "dump"]
    /\ RaceUnchanged

\* write_json: json.dump writes the document chunk by chunk; the with block
\* closes the file after the last one. A file another writer has removed
\* from under this one does not occur: nothing deletes artifacts.
Dump(r) ==
    /\ race.pc[r] = "dump"
    /\ race' = [race EXCEPT
                    !.file = Some(WriteAt(Get(race.file), race.pos[r] + 1, r)),
                    !.pos[r] = race.pos[r] + 1,
                    !.pc[r] = IF race.pos[r] + 1 = MaxChunks THEN "assemble" ELSE "dump"]
    /\ RaceUnchanged

\* the page assembly: if exists(ap): read_json(ap)
ReadArtifact(r) ==
    /\ race.pc[r] = "assemble"
    /\ race' = [race EXCEPT !.got[r] = race.file, !.pc[r] = "done"]
    /\ RaceUnchanged

NextRace ==
    \E r \in Requests2 : CheckCache(r) \/ OpenW(r) \/ Dump(r) \/ ReadArtifact(r)

SpecRace == InitRace /\ [][NextRace]_vars

(***************************************************************************)
(* The job servers git-repo-snapshot and workspace-doc-generator. Both     *)
(* keep a table _JOBS and run each job as an asyncio task on the loop that *)
(* serves the tools, so a handler or a task runs alone from one await to   *)
(* the next. jobs.table is _JOBS, jobs.task the position of each job's     *)
(* task, jobs.seen what the last status poll of each job has returned.     *)
(***************************************************************************)
MaxJobs == 2

Servers == {"git-repo-snapshot", "workspace-doc-generator"}

\* _JOBS[job_id] = {"status": "queued", "progress": 0.0, ...}
QueuedJob(server) ==
    [server |-> server, status |-> "queued", progress |-> 0,
     result |-> None, artifacts |-> None, error |-> None]

\* the task up to its await: status running, progress 50.0 / 10.0
RunningJob(job) ==
    [job EXCEPT !.status = "running",
                !.progress = IF job.server = "git-repo-snapshot" THEN 50 ELSE 10]

\* the assignments of the task after its await, in program order
AfterAwait(server, outcome) ==
    IF server = "git-repo-snapshot"
    THEN (IF outcome = "returned"
          THEN <<"result", "artifacts", "status_done", "progress">>
          ELSE <<"error", "status_error">>)
    ELSE (IF outcome = "returned"
          THEN <<"status_done", "progress", "result", "artifacts">>
          ELSE <<"status_error", "error">>)

\* job[...] = ...
Assigned(job, a) ==
    CASE a = "result" -> [job EXCEPT !.result = Some("result")]
      [] a = "artifacts" -> [job EXCEPT !.artifacts = Some(<<"result">>)]
      [] a = "status_done" -> [job EXCEPT !.status = "done"]
      [] a = "progress" -> [job EXCEPT !.progress = 100]
      [] a = "error" -> [job EXCEPT !.error = Some("error")]
      [] a = "status_error" -> [job EXCEPT !.status = "error"]

\* the envelope a status tool returns for a job of the table
StatusOut(job) ==
    [status |-> job.status, progress |-> job.progress,
     result |-> IF job.status = "done" THEN job.result ELSE None,
     artifacts |-> IF job.status = "done" THEN job.artifacts ELSE None,
     error |-> IF job.status = "error" THEN job.error ELSE None]

\* handlers that run in threads of their own, at any time
LoopFree_Threads(on_loop) == TRUE

\* the tools are coroutines (async def) of the loop the tasks run on: a
\* handler or a task starts a step only when no task is between two awaits
LoopFree(on_loop) == on_loop = 0

InitJobs ==
    /\ HandlerIdle
    /\ cat = NoCatalog /\ pool = NoPool /\ scan = NoScan
    /\ ids = NoIds /\ race = NoRace /\ jobs = NoJobs

JobsUnchanged ==
    UNCHANGED <<tree, disk, clock, req, resp, trace, walk, nfollow, calls, before,
                cur_in, token, cur_out, cat, pool, scan, ids, race>>

\* git.repo.snapshot.start / workspace.document.start: a new job id, the
\* queued entry, create_task(...)
StartJob ==
    /\ LoopFree(jobs.on_loop)
    /\ Len(jobs.table) < MaxJobs
    /\ \E server \in Servers :
            jobs' = [jobs EXCEPT !.table = Append(jobs.table, QueuedJob(server)),
                                 !.task = Append(jobs.task, "scheduled"),
                                 !.todo = Append(jobs.todo, <<>>),
                                 !.seen = Append(jobs.seen, None)]
    /\ JobsUnchanged

\* _run_clone_job / _run_doc_job from its start to the await
RunToAwait ==
    /\ LoopFree(jobs.on_loop)
    /\ \E j \in DOMAIN jobs.table :
            /\ jobs.task[j] = "scheduled"
            /\ jobs' = [jobs EXCEPT !.table[j] = RunningJob(jobs.table[j]),
                                    !.task[j] = "awaiting"]
    /\ JobsUnchanged

\* the awaited call returns or raises an Exception: the loop resumes the task
Resume ==
    /\ LoopFree(jobs.on_loop)
    /\ \E j \in DOMAIN jobs.table, outcome \in {"returned", "raised"} :
            /\ jobs.task[j] = "awaiting"
            /\ jobs' = [jobs EXCEPT !.task[j] = "resumed",
                                    !.todo[j] = AfterAwait(jobs.table[j].server, outcome),
                                    !.on_loop = j]
    /\ JobsUnchanged

\* the resumed task makes its next assignment; after the last one it ends
Assign ==
    /\ jobs.on_loop # 0
    /\ \E j \in {jobs.on_loop} :
            jobs' = [jobs EXCEPT
                        !.table[j] = Assigned(jobs.table[j], Head(jobs.todo[j])),
                        !.todo[j] = Tail(jobs.todo[j]),
                        !.task[j] = IF Len(jobs.todo[j]) = 1 THEN "finished" ELSE "resumed",
                        !.on_loop = IF Len(jobs.todo[j]) = 1 THEN 0 ELSE j]
    /\ JobsUnchanged

\* git.repo.snapshot.status / workspace.document.status for a started job
Poll ==
    /\ LoopFree(jobs.on_loop)
    /\ \E j \in DOMAIN jobs.table :
            jobs' = [jobs EXCEPT !.seen[j] = Some(StatusOut(jobs.table[j]))]
    /\ JobsUnchanged

NextJobs == StartJob \/ RunToAwait \/ Resume \/ Assign \/ Poll

SpecJobs == InitJobs /\ [][NextJobs]_vars

(***************************************************************************)
(* Run ids of requests that create a run. ids.now is the reading of        *)
(* datetime.now(timezone.utc) in microseconds, the resolution of the       *)
(* %f field; a request reads it whenever it gets to make_run_id().         *)
(***************************************************************************)
MaxNow == 4
MaxFresh == 3

InitRunId ==
    /\ HandlerIdle
    /\ cat = NoCatalog /\ pool = NoPool /\ scan = NoScan
    /\ ids = NoIds /\ race = NoRace /\ jobs = NoJobs

\* the clock moves on by a microsecond
Tick ==
    /\ ids.now < MaxNow
    /\ ids' = [ids EXCEPT !.now = ids.now + 1]
    /\ UNCHANGED <<tree, disk, clock, req, resp, trace, walk, nfollow, calls, before,
                   cur_in, token, cur_out, cat, pool, scan, race, jobs>>

\* a request without cursor and without run_id: run_id_val = make_run_id()
FreshRun ==
    /\ Len(ids.issued) < MaxFresh
    /\ ids' = [ids EXCEPT !.issued = Append(ids.issued, make_run_id(ids.now))]
    /\ UNCHANGED <<tree, disk, clock, req, resp, trace, walk, nfollow, calls, before,
                   cur_in, token, cur_out, cat, pool, scan, race, jobs>>

NextRunId == Tick \/ FreshRun

SpecRunId == InitRunId /\ [][NextRunId]_vars

(***************************************************************************)
(* Properties of cobol.parse_repo.                                         *)
(***************************************************************************)
\* the keys of the catalog the walk is over, in catalog order
WalkCatalogKeys ==
    Keys(BuildCatalog(Get(disk[walk.run_id].index).files, ResolveKinds(walk.args.kinds)))

\* C1: pagination completeness. A walk that starts with a request without
\* cursor and a positive page size, and re-issues it with each next_cursor,
\* has received at every moment a prefix of the catalog, entry by entry in
\* catalog order, and when next_cursor is null it has received the whole
\* catalog: every entry exactly once.
C1_PaginationComplete ==
    walk.active =>
        /\ Len(walk.keys) <= Len(WalkCatalogKeys)
        /\ walk.keys = SubSeq(WalkCatalogKeys, 1, Len(walk.keys))
        /\ walk.done => walk.keys = WalkCatalogKeys

\* a walk of three pages has ended
C1_Witness ==
    walk.active /\ walk.done /\ walk.pages >= 3 /\ Len(walk.keys) >= 3

\* C2: idempotence. Over successive requests against a run with
\* force_reparse false, the analyzer is invoked at most once for each file
\* of the run, whether its first analysis succeeded or failed.
C2_AnalyzedAtMostOnce ==
    \A p \in DOMAIN calls : calls[p] <= 1

\* the item of the last response for the key k, if any
ItemsFor(k) == {i \in DOMAIN resp.artifacts : resp.artifacts[i].key = k}

\* C3: failure isolation. A served page in which the analyzer failed for an
\* entry returns that entry with an error payload and every entry analysed
\* successfully with its data payload; the request itself does not fail.
C3_FailureIsolation ==
    (clock > 0 /\ trace.failed # {}) =>
        /\ resp.status = "ok"
        /\ \A i \in DOMAIN trace.page_catalog :
            LET e == trace.page_catalog[i] IN
            /\ e.key \in trace.failed =>
                   \E j \in ItemsFor(e.key) : resp.artifacts[j].kind = "error"
            /\ e.key \in trace.invoked \ trace.failed =>
                   \E j \in ItemsFor(e.key) : resp.artifacts[j].kind = e.kind

\* the last request's cursor token is one decode_cursor rejects
BadCursor == Truthy(req.cursor) /\ ~decode_cursor(Get(req.cursor)).ok

\* C4: cursor invalidation. A request whose cursor token is malformed or of
\* another ordering scheme fails; it returns no page.
C4_BadCursorRejected ==
    BadCursor => resp.status # "ok"

\* the last request raised on its arguments
ShapeError == resp.status \in {"ValueError", "FileNotFoundError"}

\* C5: a request that fails on its arguments (unknown kind, root not a
\* directory) has started no analysis and has left the persisted state of
\* every run as it found it: no run directory, index, manifest or artifact
\* was created or changed.
C5_ShapeErrorsTouchNothing ==
    (clock > 0 /\ ShapeError) =>
        /\ disk = before
        /\ trace.invoked = {} /\ trace.failed = {}
        /\ trace.run_id = None

\* a request with a cursor and an unknown kind was refused while runs exist
C5_Witness ==
    /\ resp.status = "ValueError"
    /\ Truthy(req.cursor)
    /\ disk # <<>>

\* the arguments of the last request pass the kinds and root checks
ShapeValid ==
    ~UnknownKind(ResolveKinds(req.kinds)) /\ IsDir(tree, req.paths_root)

\* the cursor of the last request as decoded (None: absent or rejected)
ReqCursor == CurFromInput(req.cursor)

\* the last request has a cursor and a run_id that name different runs
CursorRunMismatch ==
    /\ Truthy(req.run_id)
    /\ LET c == ReqCursor IN IsSome(c) /\ Get(req.run_id) # Get(c).run_id

ReferencedRun ==
    LET c == ReqCursor IN
    IF IsSome(c) /\ Get(c).run_id # <<>> THEN Some(Get(c).run_id)
    ELSE IF Truthy(req.run_id) THEN req.run_id
    ELSE None

\* the last request referred to the run r, which had no directory
MissingRun(r) ==
    clock > 0 /\ IsSome(r) /\ Get(r) \notin DOMAIN before

\* C7 as stated: a request that refers to a run without persisted state
\* fails, and does not create the run or an index under its id.
C7_MissingRunNotFound ==
    LET r == ReferencedRun IN
    MissingRun(r) =>
        /\ resp.status # "ok"
        /\ Get(r) \notin DOMAIN disk

\* C7 as amended: a request that refers to a run without persisted state
\* does not fail for it. When its kinds and root are accepted it creates
\* the run directory, walks the root, persists the new source index under
\* the referenced id and serves a page of that run; when they are refused
\* it fails and creates nothing.
C7_MissingRunCreated ==
    LET r == ReferencedRun IN
    MissingRun(r) =>
        IF ShapeValid
        THEN /\ resp.status = "ok"
             /\ resp.run.run_id = Get(r)
             /\ ~trace.loaded
             /\ IndexExists(disk, Get(r))
             /\ Get(disk[Get(r)].index).root = req.paths_root
             /\ [i \in DOMAIN tree[req.paths_root] |-> tree[req.paths_root][i].relpath]
                  = [i \in DOMAIN Get(disk[Get(r)].index).files |->
                        Get(disk[Get(r)].index).files[i].relpath]
        ELSE /\ resp.status # "ok"
             /\ Get(r) \notin DOMAIN disk

\* a cursor naming a run that was never created was served a page
C7_Witness ==
    /\ resp.status = "ok"
    /\ Truthy(req.cursor)
    /\ LET r == ReferencedRun IN
       MissingRun(r) /\ IsSome(ReqCursor) /\ IndexExists(disk, Get(r))

\* C8: a request whose page_size is zero or negative fails; it returns no
\* page and no next_cursor.
C8_BadPageSizeRejected ==
    (IsSome(req.page_size) /\ Get(req.page_size) <= 0) => resp.status # "ok"

\* C9: run id resolution. A served request operates on the run id of its
\* cursor when the cursor is valid (it decodes and names a run), else on
\* its run_id parameter when given, else on a freshly generated id. The
\* response reports that id, and the request has created or changed the
\* persisted state of no other run.
C9_RunIdPrecedence ==
    resp.status = "ok" =>
        LET id == resp.run.run_id
            c == ReqCursor
        IN
        /\ (IsSome(c) /\ Get(c).run_id # <<>>) => id = Get(c).run_id
        /\ (~IsSome(c) /\ Truthy(req.run_id)) => id = Get(req.run_id)
        /\ (~IsSome(c) /\ ~Truthy(req.run_id)) =>
               id = make_run_id(clock) /\ id \notin DOMAIN before
        /\ trace.run_id = Some(id)
        /\ DOMAIN disk = DOMAIN before \cup {id}
        /\ \A r \in DOMAIN before \ {id} : disk[r] = before[r]
        /\ Get(disk[id].manifest).run_id = id

\* a request with a valid cursor and a run_id was served a later page while
\* other runs exist
C9_Witness ==
    /\ resp.status = "ok"
    /\ Truthy(req.run_id)
    /\ trace.start > 0
    /\ LET c == ReqCursor IN IsSome(c) /\ resp.run.run_id = Get(c).run_id

\* C10: cursor round trip. Decoding the token of a cursor with the current
\* order key succeeds and yields the cursor, field for field, whatever its
\* version, kinds list, offset, page size and run id.
C10_RoundTrip ==
    IsSome(cur_out) => Get(cur_out).ok /\ Get(cur_out).val = Get(cur_in)

\* a cursor with escaped characters and the largest offset was decoded
C10_Witness ==
    /\ IsSome(cur_out)
    /\ Get(cur_out).ok
    /\ Get(cur_in).run_id = QuotedStr
    /\ Get(cur_in).offset = MaxOffset
    /\ Len(Get(token)) % 4 = 0 /\ Get(token)[Len(Get(token))] = 61

\* the files of a set in ascending order of relpath
Ascending(S) ==
    CHOOSE s \in [1..Cardinality(S) -> S] :
        \A i, j \in DOMAIN s : i < j => StrLess(s[i].relpath, s[j].relpath)

\* the sequence the catalog is to be, given the set of indexed files and the
\* set of requested kinds
CanonicalCatalog(F, K) ==
    LET cs == Ascending({f \in F : f.kind = "copybook"})
        ps == Ascending({f \in F : f.kind = "cobol"})
    IN  (IF K_source_index \in K
         THEN << [kind |-> "cam.asset.source_index", key |-> SourceIndexKey, sha |-> <<>>] >>
         ELSE <<>>)
        \o (IF K_copybook \in K
            THEN [i \in DOMAIN cs |->
                    [kind |-> "cam.cobol.copybook", key |-> cs[i].relpath, sha |-> cs[i].sha256]]
            ELSE <<>>)
        \o (IF K_program \in K
            THEN [i \in DOMAIN ps |->
                    [kind |-> "cam.cobol.program", key |-> ps[i].relpath, sha |-> ps[i].sha256]]
            ELSE <<>>)

\* C11: the catalog is a function of the set of indexed files and the set of
\* requested kinds alone: the source_index entry first, then the copybooks,
\* then the programs, each group in ascending order of relpath, whatever the
\* order the index lists the files in and the order the kinds are asked in;
\* a second build from the same tree gives the same sequence.
C11_CatalogDeterministic ==
    IsSome(cat.out) =>
        /\ Get(cat.out) = CanonicalCatalog(Range(cat.files), Range(cat.kinds))
        /\ IsSome(cat.prev) => Get(cat.prev) = Get(cat.out)

\* a tree listed b.cbl, c.cpy, a.cbl with kinds asked program, copybook, built
\* a second time
C11_Witness ==
    /\ IsSome(cat.out) /\ IsSome(cat.prev)
    /\ cat.kinds = <<K_program, K_copybook>>
    /\ [i \in DOMAIN cat.files |-> cat.files[i].relpath] = <<P_b_cbl, P_c_cpy, P_a_cbl>>
    /\ [i \in 1..3 |-> Get(cat.out)[i].key] = <<P_c_cpy, P_a_cbl, P_b_cbl>>

\* the tree with a.cbl, b.cbl and c.cpy, and the first request of the scenario
ThreeFileTree == << File(P_b_cbl, 1), File(P_c_cpy, 2), File(P_a_cbl, 3) >>
ScenarioRequest == Args(RepoRoot, Some(2), None, Some(ORDER), FALSE, None)

\* C12: against a root that holds a.cbl, b.cbl and c.cpy, a request with
\* kinds [source_index, copybook, program] and page_size 2 returns the items
\* source-index and c.cpy, in that order, and a next_cursor; the same request
\* with that cursor returns a.cbl and b.cbl, in that order, and no next_cursor.
C12_ThreeFileScenario ==
    (tree[RepoRoot] = ThreeFileTree /\ resp.status = "ok") =>
        /\ req = ScenarioRequest =>
                /\ Keys(resp.artifacts) = <<SourceIndexKey, P_c_cpy>>
                /\ resp.artifacts[1].kind = "cam.asset.source_index"
                /\ resp.artifacts[2].kind \in {"cam.cobol.copybook", "error"}
                /\ IsSome(resp.next_cursor)
        /\ (IsSome(req.cursor) /\ req = [ScenarioRequest EXCEPT !.cursor = req.cursor]) =>
                /\ walk.args = ScenarioRequest /\ walk.pages = 2
                /\ Keys(resp.artifacts) = <<P_a_cbl, P_b_cbl>>
                /\ \A i \in 1..2 : resp.artifacts[i].kind \in {"cam.cobol.program", "error"}
                /\ resp.next_cursor = None

\* the second request of the scenario has been answered, both programs parsed
C12_Witness ==
    /\ tree[RepoRoot] = ThreeFileTree
    /\ resp.status = "ok"
    /\ IsSome(req.cursor) /\ req = [ScenarioRequest EXCEPT !.cursor = req.cursor]
    /\ walk.keys = <<SourceIndexKey, P_c_cpy, P_a_cbl, P_b_cbl>>
    /\ \A i \in 1..2 : resp.artifacts[i].kind = "cam.cobol.program"

\* C13: every response that does not fail holds exactly one item per catalog
\* entry of its page slice, in the order of the slice, and each item carries
\* either the data of the entry or an error payload: no entry of the slice
\* is silently missing.
C13_OneItemPerEntry ==
    resp.status = "ok" =>
        /\ Len(resp.artifacts) = Len(trace.page_catalog)
        /\ \A i \in DOMAIN trace.page_catalog :
                /\ resp.artifacts[i].key = trace.page_catalog[i].key
                /\ resp.artifacts[i].kind \in {trace.page_catalog[i].kind, "error"}
                /\ "data" \in DOMAIN resp.artifacts[i]

\* a page of two entries, the analysis of one of them failed: one error item
\* and one data item
C13_Witness ==
    /\ resp.status = "ok"
    /\ Len(trace.page_catalog) = 2
    /\ trace.failed # {}
    /\ \E i, j \in DOMAIN resp.artifacts :
            /\ resp.artifacts[i].kind = "error"
            /\ resp.artifacts[j].kind = "cam.cobol.program"

\* C14: for a fixed request, fixed persisted state and fixed analyzer results
\* the response is the same under every interleaving and completion order of
\* the workers of the page: the page returned equals the page of the serial
\* schedule, item by item and in catalog order.
C14_ScheduleIndependent ==
    resp.status = "ok" => resp.artifacts = trace.serial_page

\* the bound on the page: the requested page size, the configured default
\* when omitted, capped at MAX_PAGE_SIZE
PageBound(page_size) ==
    IF page_size = None THEN PAGE_SIZE
    ELSE IF Get(page_size) > MAX_PAGE_SIZE THEN MAX_PAGE_SIZE ELSE Get(page_size)

\* C15: every response holds at most effective_page_size items, the requested
\* page size (the default when omitted) capped at MAX_PAGE_SIZE, which is
\* also the page size the response reports; no page_size value yields a
\* larger page.
C15_PageWithinBound ==
    resp.status = "ok" =>
        /\ Len(resp.artifacts) <= PageBound(req.page_size)
        /\ Len(resp.artifacts) <= resp.meta.page_size

\* C16: the next_cursor returned for a request has an offset strictly greater
\* than the offset the request started from, so that the offset never
\* decreases along a chain of requests following returned cursors; a request
\* without cursor starts at offset 0.
C16_OffsetAdvances ==
    resp.status = "ok" =>
        /\ ~Truthy(req.cursor) => trace.start = 0
        /\ IsSome(resp.next_cursor) =>
                LET c == decode_cursor(Get(resp.next_cursor)) IN
                c.ok /\ c.val.offset > trace.start

\* C17: once a run is created its root and its requested kinds never change:
\* a served request that references an existing run, whatever its paths_root
\* and kinds arguments, leaves in the run's manifest the root and the kinds
\* it found there, hence those of the creating request.
C17_RunImmutable ==
    (resp.status = "ok" /\ resp.run.run_id \in DOMAIN before) =>
        LET old == before[resp.run.run_id].manifest
            new == disk[resp.run.run_id].manifest
        IN  IsSome(old) =>
                /\ Get(new).paths_root = Get(old).paths_root
                /\ Get(new).kinds = Get(old).kinds

\* C18: when the fill step of a request has returned, every entry of the page
\* slice other than the synthetic source-index entry has a success artifact
\* or an error artifact stored in the cache of the run under its fingerprint.
C18_SliceArtifactsStored ==
    resp.status = "ok" =>
        LET arts == disk[resp.run.run_id].arts IN
        \A i \in DOMAIN trace.page_catalog :
            LET e == trace.page_catalog[i] IN
            NeedsWork(e) =>
                \/ artifact_path(e.sha, Phase(e)) \in DOMAIN arts
                \/ artifact_path(e.sha, "error") \in DOMAIN arts

\* a slice with an entry that has only an error artifact and an entry that
\* has a success artifact
C18_Witness ==
    /\ resp.status = "ok"
    /\ \E i, j \in DOMAIN trace.page_catalog :
        LET arts == disk[resp.run.run_id].arts
            e == trace.page_catalog[i]
            g == trace.page_catalog[j]
        IN  /\ NeedsWork(e) /\ NeedsWork(g)
            /\ artifact_path(e.sha, Phase(e)) \notin DOMAIN arts
            /\ artifact_path(e.sha, "error") \in DOMAIN arts
            /\ artifact_path(g.sha, Phase(g)) \in DOMAIN arts

\* C19: within a request the manifest is written and the page is assembled
\* only after every worker submitted for the page has completed: while a
\* worker of the request is queued or running the request's thread has not
\* reached the manifest write, and the assembly finds the artifact of every
\* task of the page.
C19_AssemblyAfterWorkers ==
    /\ pool.pc \in {"manifest", "page", "return"} => AllDone(pool.st)
    /\ pool.manifest => AllDone(pool.st)
    /\ pool.pc = "return" => pool.page = 1..pool.n

\* a page with more tasks than pool threads has been assembled
C19_Witness ==
    /\ pool.pc = "return"
    /\ pool.n > WORKERS
    /\ pool.manifest
    /\ pool.page = 1..pool.n

\* C20: during the fill step of a request no more than WORKERS workers, hence
\* analyzer invocations, run at the same time, whatever the length of the page.
C20_BoundedWorkers ==
    Cardinality(Running(pool.st)) <= WORKERS

\* WORKERS workers run while another task of the page waits in the queue
C20_Witness ==
    /\ Cardinality(Running(pool.st)) = WORKERS
    /\ Queued(pool.st) # {}

WrittenSlot(e) ==
    artifact_path(e.sha, IF e.key \in trace.failed THEN "error" ELSE Phase(e))
WrittenDoc(e) ==
    IF e.key \in trace.failed THEN ErrorArtifact(Phase(e), e.key)
    ELSE Normalized(Phase(e), e.key, e.sha, FileAt(tree, req.paths_root, e.key))

\* C22: any two writes to the same cache key (run id, fingerprint, kind)
\* write the same document, so that the stored artifact does not depend on
\* the writer that runs last: two entries of a page with equal fingerprint
\* never write differing documents to their shared slot.
C22_SameSlotSameBytes ==
    resp.status = "ok" =>
        \A i, j \in DOMAIN trace.page_catalog :
            LET e == trace.page_catalog[i]
                g == trace.page_catalog[j]
            IN  (/\ NeedsWork(e) /\ NeedsWork(g)
                 /\ e.key \in trace.invoked /\ g.key \in trace.invoked
                 /\ WrittenSlot(e) = WrittenSlot(g)) =>
                    WrittenDoc(e) = WrittenDoc(g)

\* C23: the source index of a run is built by walking the tree once, on the
\* request that creates the run; it is never rewritten with other content,
\* and every later request that references the run by cursor or run_id reads
\* it and builds its catalog from it, whatever the tree has become.
C23_IndexBuiltOnce ==
    [][clock' # clock =>
        /\ \A r \in DOMAIN disk :
                IsSome(disk[r].index) => disk'[r].index = disk[r].index
        /\ resp'.status = "ok" =>
                LET r == resp'.run.run_id IN
                IF r \in DOMAIN disk
                THEN /\ trace'.loaded
                     /\ LET catalog == BuildCatalog(Get(disk[r].index).files,
                                                    ResolveKinds(req'.kinds))
                        IN  /\ trace'.total = Len(catalog)
                            /\ trace'.page_catalog =
                                    PySlice(catalog, trace'.start, trace'.end)
                ELSE /\ ~trace'.loaded
                     /\ Get(disk'[r].index).files = walk_index(tree[RepoRoot])]_vars

\* a request has been served from the index of an existing run while the
\* tree holds other files than the index lists
C23_Witness ==
    /\ resp.status = "ok"
    /\ resp.run.run_id \in DOMAIN before
    /\ trace.loaded
    /\ Len(trace.page_catalog) >= 2
    /\ Get(disk[resp.run.run_id].index).files # walk_index(tree[RepoRoot])

\* the number of files of an index of a given classification
CountKind(files, kind) == Cardinality({i \in DOMAIN files : files[i].kind = kind})

\* C24: after a served request the manifest of its run is exactly the record
\* of that request: run id, root, resolved kinds, effective page size and the
\* counts of the run's index under those kinds, whatever the manifest held
\* before; the manifests of the other runs are left as they were.
C24_ManifestIsLastRequest ==
    resp.status = "ok" =>
        LET r == resp.run.run_id
            files == Get(disk[r].index).files
            kinds == ResolveKinds(req.kinds)
        IN  /\ disk[r].manifest =
                    Some([run_id |-> r,
                          paths_root |-> req.paths_root,
                          kinds |-> kinds,
                          page_size |-> EffectivePageSize(req.page_size),
                          counts |->
                            [source_index |-> IF InList(K_source_index, kinds) THEN 1 ELSE 0,
                             copybook |-> IF InList(K_copybook, kinds)
                                          THEN CountKind(files, "copybook") ELSE 0,
                             program |-> IF InList(K_program, kinds)
                                         THEN CountKind(files, "cobol") ELSE 0]])
            /\ \A o \in DOMAIN before : o # r => disk[o].manifest = before[o].manifest

\* a request has replaced the manifest an earlier request had written
C24_Witness ==
    /\ resp.status = "ok"
    /\ resp.run.run_id \in DOMAIN before
    /\ IsSome(before[resp.run.run_id].manifest)
    /\ Get(before[resp.run.run_id].manifest).kinds # ResolveKinds(req.kinds)
    /\ Get(before[resp.run.run_id].manifest).page_size # EffectivePageSize(req.page_size)
    /\ Get(disk[resp.run.run_id].manifest).kinds = ResolveKinds(req.kinds)

\* C25: the catalog holds exactly one synthetic source_index entry iff
\* source_index is requested, whatever the number of indexed files (zero
\* too), and exactly one entry per indexed file whose classification matches
\* a requested per-file kind (copybook files for copybook, cobol files for
\* program); files of any other classification contribute no entry, and the
\* catalog holds nothing else.
C25_CatalogEntries ==
    IsSome(cat.out) =>
        LET c == Get(cat.out)
            K == Range(cat.kinds)
            synthetic == {i \in DOMAIN c : c[i].kind = "cam.asset.source_index"}
        IN  /\ Cardinality(synthetic) = IF K_source_index \in K THEN 1 ELSE 0
            /\ \A j \in DOMAIN cat.files :
                    LET f == cat.files[j]
                        mine == {i \in DOMAIN c \ synthetic : c[i].key = f.relpath}
                    IN  /\ Cardinality(mine) =
                                IF \/ (f.kind = "copybook" /\ K_copybook \in K)
                                   \/ (f.kind = "cobol" /\ K_program \in K)
                                THEN 1 ELSE 0
                        /\ \A i \in mine :
                                c[i].kind = IF f.kind = "copybook" THEN "cam.cobol.copybook"
                                            ELSE "cam.cobol.program"
            /\ \A i \in DOMAIN c \ synthetic :
                    \E j \in DOMAIN cat.files : cat.files[j].relpath = c[i].key

\* a catalog built from d.txt, c.cpy and a.cbl for the kinds program and
\* source_index: the synthetic entry and a.cbl
C25_Witness ==
    /\ IsSome(cat.out)
    /\ cat.kinds = <<K_program, K_source_index>>
    /\ [i \in DOMAIN cat.files |-> cat.files[i].relpath] = <<P_d_txt, P_c_cpy, P_a_cbl>>
    /\ Len(Get(cat.out)) = 2

\* C26: if files disappear while the indexer walks the tree, before they are
\* stat'd or between the stat and the fingerprinting, the index build still
\* completes, and the index holds exactly the files that did not vanish.
C26_VanishedFilesSkipped ==
    IsSome(scan.out) =>
        /\ Get(scan.out).ok
        /\ Get(scan.out).files = walk_index(Staying(scan.listing, scan.fate))

\* C27: every analyzer invocation, of a copybook or of a program, is ended by
\* its timeout at the latest: a timed-out invocation has left an ErrorArtifact
\* and its worker has returned, and as long as the fill step has not returned
\* the request can take a step (no worker waits for a process that nothing
\* will end).
C27_FillStepReturns ==
    /\ \A i \in pool.timedout : pool.st[i] = "done" /\ pool.art[i] = "error"
    /\ pool.pc # "return" => ENABLED NextAnalyzer

CeilDiv(a, b) == (a + b - 1) \div b

\* the requests a client at offset o has still to make to reach the end of a
\* catalog of total entries with pages of page_size entries (page_size >= 1)
PagesLeft(total, o, page_size) ==
    IF o >= total THEN 0 ELSE CeilDiv(total - o, page_size)

\* C28: a client that follows next_cursor gets next_cursor = null after at
\* most ceil(total / page_size) requests, whatever page size the request
\* accepts: a response that returns a cursor has a page size of at least
\* one, leaves fewer pages to fetch from the returned offset than there were
\* from the offset of the request, and a chain started without cursor needs
\* no more than ceil(total / page_size) requests; an empty catalog is served
\* by one request.
C28_ChainEnds ==
    resp.status = "ok" =>
        /\ trace.total = 0 => resp.next_cursor = None
        /\ IsSome(resp.next_cursor) =>
                LET c == decode_cursor(Get(resp.next_cursor))
                    ps == resp.meta.page_size
                IN  /\ c.ok
                    /\ ps >= 1
                    /\ PagesLeft(trace.total, c.val.offset, ps)
                            < PagesLeft(trace.total, trace.start, ps)
                    /\ ~Truthy(req.cursor) =>
                            1 + PagesLeft(trace.total, c.val.offset, ps)
                                <= CeilDiv(trace.total, ps)

\* C29: in every response next_cursor is non-null exactly when catalog
\* entries remain after the returned page, and a non-null next_cursor decodes
\* to a cursor of the same run whose offset is the start offset of the
\* request plus the number of entries of the page slice.
C29_NextCursorIffMore ==
    resp.status = "ok" =>
        LET after == trace.start + Len(trace.page_catalog) IN
        /\ IsSome(resp.next_cursor) <=> after < trace.total
        /\ IsSome(resp.next_cursor) =>
                LET c == decode_cursor(Get(resp.next_cursor)) IN
                /\ c.ok
                /\ c.val.run_id = resp.run.run_id
                /\ c.val.offset = after

\* the catalog of the last served request, from the stored index of its run
ServedCatalog ==
    BuildCatalog(Get(disk[resp.run.run_id].index).files, ResolveKinds(req.kinds))

\* catalog position j (from 1) lies in the page slice [offset, offset + page_size)
InPageSlice(j) ==
    trace.start <= j - 1 /\ j - 1 < trace.start + resp.meta.page_size

\* the artifacts of the run before the last request
ArtsBefore ==
    IF resp.run.run_id \in DOMAIN before THEN before[resp.run.run_id].arts ELSE <<>>

\* C30: a request invokes the analyzer only for entries of its page slice
\* [offset, offset + page_size), and the success and error artifacts of the
\* entries on earlier or later pages are after the request as they were
\* before it: none created, none modified.
C30_OnlyPageSliceTouched ==
    resp.status = "ok" =>
        LET catalog == ServedCatalog
            new == disk[resp.run.run_id].arts
        IN  /\ \A k \in trace.invoked :
                    \E j \in DOMAIN catalog : InPageSlice(j) /\ catalog[j].key = k
            /\ \A j \in DOMAIN catalog :
                    (NeedsWork(catalog[j]) /\ ~InPageSlice(j)) =>
                        \A p \in {artifact_path(catalog[j].sha, Phase(catalog[j])),
                                   artifact_path(catalog[j].sha, "error")} :
                            /\ p \in DOMAIN new <=> p \in DOMAIN ArtsBefore
                            /\ p \in DOMAIN new => new[p] = ArtsBefore[p]

\* the run the last request has worked on, if it got that far
TouchedRuns == IF IsSome(trace.run_id) THEN {Get(trace.run_id)} ELSE {}

\* C31: artifacts are isolated per run: a request leaves the source index,
\* the manifest and the artifacts of every run but its own as they were and
\* creates no other run, and an artifact another run holds for a fingerprint
\* is no cache hit: when the request's own run had no success artifact for
\* the fingerprint of an entry of the page, the analyzer was invoked for that
\* fingerprint.
C31_RunsIsolated ==
    clock > 0 =>
        /\ DOMAIN disk \subseteq DOMAIN before \cup TouchedRuns
        /\ \A b \in DOMAIN before \ TouchedRuns :
                b \in DOMAIN disk /\ disk[b] = before[b]
        /\ resp.status = "ok" =>
                \A i \in DOMAIN trace.page_catalog :
                    LET e == trace.page_catalog[i] IN
                    (/\ NeedsWork(e)
                     /\ artifact_path(e.sha, Phase(e)) \notin DOMAIN ArtsBefore)
                        => \E j \in DOMAIN trace.page_catalog :
                                /\ trace.page_catalog[j].sha = e.sha
                                /\ trace.page_catalog[j].key \in trace.invoked

\* a request has analysed an entry in its own run while another run held a
\* success artifact for the same fingerprint and kind
C31_Witness ==
    /\ resp.status = "ok"
    /\ \E b \in DOMAIN before \ TouchedRuns, i \in DOMAIN trace.page_catalog :
            LET e == trace.page_catalog[i] IN
            /\ NeedsWork(e)
            /\ artifact_path(e.sha, Phase(e)) \in DOMAIN before[b].arts
            /\ artifact_path(e.sha, Phase(e)) \notin DOMAIN ArtsBefore
            /\ e.key \in trace.invoked
            /\ disk[b] = before[b]

\* C32: any two requests that create a fresh run obtain distinct run ids,
\* also when they are processed at the same time or read the same clock
\* value, and so never share a run directory.
C32_FreshRunIdsDistinct ==
    \A i, j \in DOMAIN ids.issued : i # j => ids.issued[i] # ids.issued[j]

\* a token in the URL-safe base64 alphabet, in quads, with "=" only as the
\* last one or two characters
IsBase64(t) ==
    LET alphabet == {B64Char(v) : v \in 0..63} IN
    /\ Len(t) % 4 = 0
    /\ \A i \in DOMAIN t :
            \/ t[i] \in alphabet
            \/ t[i] = 61 /\ i >= Len(t) - 1 /\ (i < Len(t) => t[Len(t)] = 61)

\* a base64 token whose bytes are no JSON object with a string run_id
NotACursor(t) ==
    LET raw == urlsafe_b64decode(t)
        data == IF raw.ok THEN json_loads(raw.val) ELSE [ok |-> FALSE, val |-> None]
    IN  \/ ~data.ok
        \/ data.val.t # "obj"
        \/ ~HasKey(data.val.v, F_run_id)
        \/ Lookup(data.val.v, F_run_id).t # "str"

\* a token of a JSON object that names another order key
OtherOrder(t) ==
    LET raw == urlsafe_b64decode(t)
        data == IF raw.ok THEN json_loads(raw.val) ELSE [ok |-> FALSE, val |-> None]
    IN  /\ data.ok /\ data.val.t = "obj"
        /\ HasKey(data.val.v, F_order_key)
        /\ Lookup(data.val.v, F_order_key) # JStr(ORDER_KEY)

\* C33: decode_cursor returns a cursor only for a well-formed token with the
\* current order key: for every token that is not base64, whose bytes are not
\* JSON or lack run_id, or that names another order key, it raises and
\* returns no cursor.
C33_DecodeRejectsMalformed ==
    (IsSome(token) /\ IsSome(cur_out)) =>
        ((~IsBase64(Get(token)) \/ NotACursor(Get(token)) \/ OtherOrder(Get(token)))
            => ~Get(cur_out).ok)

\* C34: a cursor pins the kinds of the request that issued it: a served
\* request that passes the cursor of the response before it, with the kinds
\* argument omitted or changed, pages over the catalog of that earlier
\* request, so that the offset of the cursor indexes the catalog it was
\* issued for.
C34_CursorPinsKinds ==
    [][(/\ clock' = clock + 1
        /\ resp.status = "ok" /\ IsSome(resp.next_cursor)
        /\ req'.cursor = resp.next_cursor
        /\ resp'.status = "ok")
            => ServedCatalog' = ServedCatalog]_vars

\* C35: without force_reparse at most one analyzer invocation is started for
\* a cache key (run, fingerprint, artifact kind), whatever the interleaving
\* of the workers: of two entries of a page with the same fingerprint and
\* kind at most one has had the analyzer invoked.
C35_OneInvocationPerKey ==
    (resp.status = "ok" /\ ~req.force_reparse) =>
        \A i, j \in DOMAIN trace.page_catalog :
            LET e == trace.page_catalog[i]
                f == trace.page_catalog[j]
            IN  (/\ i # j /\ NeedsWork(e) /\ NeedsWork(f)
                 /\ e.sha = f.sha /\ Phase(e) = Phase(f))
                    => ~(e.key \in trace.invoked /\ f.key \in trace.invoked)

\* C36: in the response to a request with force_reparse the item of every
\* analysed entry shows the outcome of the analysis that request has made:
\* an entry whose analysis failed is reported as an error, also when an
\* earlier request has left a success artifact for its fingerprint, and an
\* entry whose analysis succeeded is reported with its kind.
C36_ForcedOutcomeReported ==
    (resp.status = "ok" /\ req.force_reparse) =>
        \A i \in DOMAIN trace.page_catalog :
            LET e == trace.page_catalog[i] IN
            NeedsWork(e) =>
                /\ e.key \in trace.invoked
                /\ resp.artifacts[i].key = e.key
                /\ resp.artifacts[i].kind =
                        (IF e.key \in trace.failed THEN "error" ELSE e.kind)

\* C37: in every response the payload of a copybook or program item is about
\* the item's own file: the relpath of the artifact's source is the key of
\* the item, also when several files of the tree hold the same bytes.
C37_ItemDescribesOwnFile ==
    resp.status = "ok" =>
        \A i \in DOMAIN resp.artifacts :
            resp.artifacts[i].kind \in {"cam.cobol.copybook", "cam.cobol.program"}
                => resp.artifacts[i].data.source.relpath = resp.artifacts[i].key

\* C38: when two requests run at the same time against one run, the page
\* assembly of either never reads an artifact file that a worker of the
\* other has truncated or written in part: what it reads is the complete
\* artifact of one writer.
C38_ReadsCompleteArtifact ==
    \A r \in DOMAIN race.got :
        IsSome(race.got[r]) =>
            \E w \in {0} \cup Requests2 : Get(race.got[r]) = CompleteDoc(w)

\* the status a job may have after a step, given its status before it
NextStatuses(status) ==
    CASE status = "queued" -> {"queued", "running"}
      [] status = "running" -> {"running", "done", "error"}
      [] OTHER -> {status}

\* C39: in the job servers the status of a started job moves only along
\* queued -> running -> done or queued -> running -> error, done and error
\* are never left, a job whose background task has finished is done or
\* error, and a status poll that has seen done has found the result and the
\* artifacts of the job.
C39_JobLifecycle ==
    /\ [](\A j \in DOMAIN jobs.table :
            /\ jobs.table[j].status \in {"queued", "running", "done", "error"}
            /\ jobs.task[j] = "finished" => jobs.table[j].status \in {"done", "error"}
            /\ (IsSome(jobs.seen[j]) /\ Get(jobs.seen[j]).status = "done") =>
                    /\ IsSome(Get(jobs.seen[j]).result)
                    /\ IsSome(Get(jobs.seen[j]).artifacts))
    /\ [][\A j \in DOMAIN jobs.table :
            /\ j \in DOMAIN jobs'.table
            /\ jobs'.table[j].status \in NextStatuses(jobs.table[j].status)]_vars

\* a poll has seen a job running and the job is done now, polled again with
\* its result, while the job of the other server has ended in error
C39_Witness ==
    \E j, k \in DOMAIN jobs.table :
        /\ jobs.table[j].status = "done" /\ jobs.task[j] = "finished"
        /\ IsSome(jobs.seen[j]) /\ Get(jobs.seen[j]).status = "done"
        /\ IsSome(Get(jobs.seen[j]).artifacts)
        /\ jobs.table[k].status = "error"
        /\ jobs.table[k].server # jobs.table[j].server

====
